---- MODULE Spec2Model ----
(***************************************************************************)
(* A model of the ws_bitpack bit cursor (BitPackReader / BitPackWriter),   *)
(* of the value codecs built on it and of the code generated by the        *)
(* MessageStruct / MessageUnion derive macros of oceantume/wildstar-sandbox*)
(*                                                                         *)
(* Representation.  A byte is a number in 0..255 and a buffer a sequence   *)
(* of bytes (byte k of the Rust slice is buffer[k+1]).  A u64 is the set   *)
(* of the indices (0..63) of its one bits, so that all 64 bits are kept:   *)
(* `value |= 1 << i` is value \cup {i} and `(value >> i) & 1` is i \in     *)
(* value.  An integer of a narrower or signed type is the set of one bits  *)
(* of its two's-complement pattern at its native width.                    *)
(***************************************************************************)
EXTENDS Integers, Sequences, FiniteSets, TLC

VARIABLES
    debug_build,  \* TRUE: overflow checks and debug assertions on (dev/test profile)
    buffer,       \* the byte slice the cursor borrows
    cursor,       \* which struct borrows it: "reader" or "writer"
    position,     \* BitPackReader::position / BitPackWriter::position, in bits
    last,         \* the last operation called, its arguments, outcome and pre-state
    ops,          \* number of operations called so far
    fields,       \* sequence scenario: the (value, bits) pairs to write and read back
    done,         \* sequence scenario: phase and values read back
    msg           \* message scenario: type, input value, outcomes of write/bits/read

vars == <<debug_build, buffer, cursor, position, last, ops, fields, done, msg>>

----------------------------------------------------------------------------
(* Bounds of the model *)

\* Longest buffer, in bytes.  9 bytes hold more than 64 bits, so a transfer
\* of more than 64 bits can reach bit index 64 before the buffer ends.
MaxLen == 9
\* Number of cursor operations in one run of Spec.
MaxOps == 2
\* Number of (value, bits) pairs in one run of SpecSeq.
MaxFields == 2
\* Length in bytes of the buffer a message is written to and read from in SpecMsg.
MsgBufLen == 48

----------------------------------------------------------------------------
(* Machine words as sets of one-bit indices *)

Pow2(k) == 2 ^ k

RECURSIVE SumBits(_, _)
SumBits(S, w) == IF w = 0 THEN 0
                 ELSE SumBits(S, w - 1) + (IF (w - 1) \in S THEN Pow2(w - 1) ELSE 0)

\* the word whose numeric value is n (0 <= n < 2^30)
Word(n) == {i \in 0..29 : (n \div Pow2(i)) % 2 = 1}

\* the numeric value of a word known to be below 2^30 (lengths, indices)
ToNat(v) == SumBits(v, 30)

\* v << k and v >> k at width w; v | u, v & u, !v at width w
Shl(v, k, w) == {i + k : i \in {j \in v : j + k < w}}
Shr(v, k)    == {i - k : i \in {j \in v : j >= k}}
Or(v, u)     == v \cup u
And(v, u)    == v \cap u
Not(v, w)    == (0..(w - 1)) \ v

\* v as an unsigned type of w bits (truncation); value mod 2^w
Low(v, w) == {i \in v : i < w}

One == {0}
AllOnes == 0..63

\* LET v == x IN Body(v), with x evaluated once however often Body uses v
Bind(x, Body(_)) == CHOOSE out \in {Body(v) : v \in {x}} : TRUE

----------------------------------------------------------------------------
(* BitPackReader: crates/ws_bitpack/src/reader.rs *)

read_bit_msb(buf, pos) ==
    LET pos_in_buffer == pos \div 8
        pos_in_byte == pos % 8
    IN  IF pos_in_buffer < Len(buf)
        THEN [status |-> "Ok",
              bit |-> And(Shr(buf[pos_in_buffer + 1], 7 - pos_in_byte), One) # {},
              position |-> pos + 1]
        ELSE [status |-> "OutOfBounds", bit |-> FALSE, position |-> pos]

read_bit_short(buf, pos) ==
    LET pos_in_buffer == pos \div 8
        pos_in_byte == pos % 8
    IN  IF pos_in_buffer < Len(buf) - 1
        THEN [status |-> "Ok",
              bit |-> And(Shr(buf[pos_in_buffer + 1], pos_in_byte), One) # {},
              position |-> pos + 1]
        ELSE [status |-> "OutOfBounds", bit |-> FALSE, position |-> pos]

\* read_bit: buffer.get(position / 8); Some(byte) => (byte >> position % 8) & 1 != 0
\* and position += 1; None => Err(OutOfBounds)
read_bit(buf, pos) ==
    LET pos_in_buffer == pos \div 8
        pos_in_byte == pos % 8
    IN  IF pos_in_buffer < Len(buf)
        THEN [status |-> "Ok",
              bit |-> And(Shr(buf[pos_in_buffer + 1], pos_in_byte), One) # {},
              position |-> pos + 1]
        ELSE [status |-> "OutOfBounds", bit |-> FALSE, position |-> pos]

\* one iteration of `for i in 0..bits { if self.read_bit()? { value |= 1 << i } }`,
\* from the loop state s.  `1 << i` is a u64 shift: with i >= 64 it panics when
\* overflow checks are on and shifts by i % 64 otherwise.
read_u64_step(buf, dbg, s, i) ==
    Bind(read_bit(buf, s.position), LAMBDA r :
        IF r.status # "Ok"
        THEN [status |-> r.status, value |-> {}, position |-> r.position]
        ELSE IF ~r.bit
        THEN [s EXCEPT !.position = r.position]
        ELSE IF i >= 64 /\ dbg
        THEN [status |-> "Panic", value |-> {}, position |-> r.position]
        ELSE [s EXCEPT !.position = r.position,
                       !.value = Or(s.value, Shl(One, i % 64, 64))])

\* the iterations lo..hi-1 of that loop, in order, stopping at the first `?`
RECURSIVE read_u64_for(_, _, _, _, _)
read_u64_for(buf, dbg, s0, lo, hi) ==
    Bind(s0, LAMBDA s :
        IF lo >= hi \/ s.status # "Ok" THEN s
        ELSE IF hi - lo = 1 THEN read_u64_step(buf, dbg, s, lo)
        ELSE LET mid == (lo + hi) \div 2
             IN  read_u64_for(buf, dbg, read_u64_for(buf, dbg, s, lo, mid), mid, hi))

\* read_u64: let mut value = 0; for i in 0..bits {...}; Ok(value)
read_u64(buf, pos, bits, dbg) ==
    read_u64_for(buf, dbg, [status |-> "Ok", value |-> {}, position |-> pos], 0, bits)

reader_align_once(buf, pos) ==
    LET r == read_bit(buf, pos)
    IN  IF r.status # "Ok" THEN [status |-> r.status, position |-> r.position]
        ELSE [status |-> "Ok", position |-> 8 * ((r.position + 7) \div 8)]

\* an align that takes a one in the padding for an error
RECURSIVE reader_align_strict(_, _)
reader_align_strict(buf, pos) ==
    IF pos % 8 = 0
    THEN [status |-> "Ok", position |-> pos]
    ELSE Bind(read_bit(buf, pos), LAMBDA r :
             IF r.status # "Ok" \/ r.bit
             THEN [status |-> "OutOfBounds", position |-> r.position]
             ELSE reader_align_strict(buf, r.position))

\* align: while position % 8 != 0 { read_bit()? }
RECURSIVE reader_align(_, _)
reader_align(buf, pos) ==
    IF pos % 8 = 0
    THEN [status |-> "Ok", position |-> pos]
    ELSE Bind(read_bit(buf, pos), LAMBDA r :
             IF r.status # "Ok"
             THEN [status |-> r.status, position |-> r.position]
             ELSE reader_align(buf, r.position))

\* read_bytes: for byte in buf.iter_mut() { *byte = read_u64(8)? as u8 }
RECURSIVE read_bytes_loop(_, _, _, _, _)
read_bytes_loop(buf, pos, n, out, dbg) ==
    IF n = 0
    THEN [status |-> "Ok", bytes |-> out, position |-> pos]
    ELSE Bind(read_u64(buf, pos, 8, dbg), LAMBDA r :
             IF r.status # "Ok"
             THEN [status |-> r.status, bytes |-> out, position |-> r.position]
             ELSE read_bytes_loop(buf, r.position, n - 1, Append(out, Low(r.value, 8)), dbg))

read_bytes(buf, pos, n, dbg) == read_bytes_loop(buf, pos, n, <<>>, dbg)

----------------------------------------------------------------------------
(* BitPackWriter: crates/ws_bitpack/src/writer.rs *)

write_bit_or(buf, pos, bit) ==
    LET pos_in_buffer == pos \div 8
        pos_in_byte == pos % 8
    IN  IF pos_in_buffer < Len(buf)
        THEN LET byte == buf[pos_in_buffer + 1]
                 rhs == Shl(One, pos_in_byte, 8)
             IN  [status |-> "Ok",
                  buffer |-> [buf EXCEPT ![pos_in_buffer + 1] =
                                 IF bit THEN Or(byte, rhs) ELSE byte],
                  position |-> pos + 1]
        ELSE [status |-> "OutOfBounds", buffer |-> buf, position |-> pos]

\* a write_bit that stores the mask, or zero, into the byte
write_bit_store(buf, pos, bit) ==
    LET pos_in_buffer == pos \div 8
        pos_in_byte == pos % 8
    IN  IF pos_in_buffer < Len(buf)
        THEN [status |-> "Ok",
              buffer |-> [buf EXCEPT ![pos_in_buffer + 1] =
                             IF bit THEN Shl(One, pos_in_byte, 8) ELSE {}],
              position |-> pos + 1]
        ELSE [status |-> "OutOfBounds", buffer |-> buf, position |-> pos]

\* write_bit: buffer.get_mut(position / 8); Some(byte) => rhs = 1 << position % 8,
\* *byte |= rhs or *byte &= !rhs, position += 1; None => Err(OutOfBounds)
write_bit(buf, pos, bit) ==
    LET pos_in_buffer == pos \div 8
        pos_in_byte == pos % 8
    IN  IF pos_in_buffer < Len(buf)
        THEN LET byte == buf[pos_in_buffer + 1]
                 rhs == Shl(One, pos_in_byte, 8)
             IN  [status |-> "Ok",
                  buffer |-> [buf EXCEPT ![pos_in_buffer + 1] =
                                 IF bit THEN Or(byte, rhs) ELSE And(byte, Not(rhs, 8))],
                  position |-> pos + 1]
        ELSE [status |-> "OutOfBounds", buffer |-> buf, position |-> pos]

\* one iteration of `for i in 0..bits { self.write_bit(((value >> i) & 1) != 0)? }`,
\* from the loop state s.  `value >> i` is a u64 shift: with i >= 64 it panics
\* when overflow checks are on and shifts by i % 64 otherwise.
write_u64_step(value, dbg, s, i) ==
    IF i >= 64 /\ dbg
    THEN [s EXCEPT !.status = "Panic"]
    ELSE write_bit(s.buffer, s.position, And(Shr(value, i % 64), One) # {})

\* the iterations lo..hi-1 of that loop, in order, stopping at the first `?`
RECURSIVE write_u64_for(_, _, _, _, _)
write_u64_for(value, dbg, s0, lo, hi) ==
    Bind(s0, LAMBDA s :
        IF lo >= hi \/ s.status # "Ok" THEN s
        ELSE IF hi - lo = 1 THEN write_u64_step(value, dbg, s, lo)
        ELSE LET mid == (lo + hi) \div 2
             IN  write_u64_for(value, dbg, write_u64_for(value, dbg, s, lo, mid), mid, hi))

\* write_u64: for i in 0..bits {...}; Ok(())
write_u64(buf, pos, value, bits, dbg) ==
    write_u64_for(value, dbg, [status |-> "Ok", buffer |-> buf, position |-> pos], 0, bits)

\* an align that writes a bit before it tests the position
writer_align_first(buf, pos) ==
    Bind(write_bit(buf, pos, FALSE), LAMBDA r :
        IF r.status # "Ok" THEN r
        ELSE [status |-> "Ok", buffer |-> r.buffer,
              position |-> 8 * ((r.position + 7) \div 8)])

\* an align that moves the position and leaves the padding bits as they were
writer_align_skip(buf, pos) ==
    IF pos % 8 = 0 \/ pos >= 8 * Len(buf)
    THEN [status |-> IF pos % 8 = 0 THEN "Ok" ELSE "OutOfBounds",
          buffer |-> buf, position |-> pos]
    ELSE [status |-> "Ok", buffer |-> buf, position |-> 8 * ((pos \div 8) + 1)]

\* align: while position % 8 != 0 { write_bit(false)? }
RECURSIVE writer_align(_, _)
writer_align(buf, pos) ==
    IF pos % 8 = 0
    THEN [status |-> "Ok", buffer |-> buf, position |-> pos]
    ELSE Bind(write_bit(buf, pos, FALSE), LAMBDA r :
             IF r.status # "Ok" THEN r ELSE writer_align(r.buffer, r.position))

\* write_bytes: for byte in bytes { write_u64(*byte as u64, 8)? }
RECURSIVE write_bytes(_, _, _, _)
write_bytes(buf, pos, bytes, dbg) ==
    IF bytes = <<>>
    THEN [status |-> "Ok", buffer |-> buf, position |-> pos]
    ELSE Bind(write_u64(buf, pos, Head(bytes), 8, dbg), LAMBDA r :
             IF r.status # "Ok" THEN r
             ELSE write_bytes(r.buffer, r.position, Tail(bytes), dbg))

----------------------------------------------------------------------------
(* Value codecs: crates/ws_bitpack/src/values *)

\* Types.  An integer type is its width and signedness; a value of it is the
\* set of one bits of its two's-complement pattern at that width.
IntT(bits, signed) == [kind |-> "int", bits |-> bits, signed |-> signed]
u8  == IntT(8, FALSE)
i8  == IntT(8, TRUE)
u16 == IntT(16, FALSE)
i16 == IntT(16, TRUE)
u32 == IntT(32, FALSE)
u64 == IntT(64, FALSE)
usize == IntT(64, FALSE)
BoolT == [kind |-> "bool"]
StringT == [kind |-> "String"]
VecT(elem) == [kind |-> "Vec", elem |-> elem]
ArrayT(elem, len) == [kind |-> "array", elem |-> elem, len |-> len]
UnionT(variants) == [kind |-> "union", variants |-> variants]
StructT(fds) == [kind |-> "struct", fields |-> fds]

\* `*self as u64`: sign extension for a signed type, zero extension otherwise
as_u64(v, ty) == IF ty.signed /\ (ty.bits - 1) \in v THEN v \cup (ty.bits..63) ELSE v

\* `v as $t` from u64: truncation to the type's width
as_int(v, ty) == Low(v, ty.bits)

\* the two's-complement pattern of -n at width w (n > 0)
Neg(n, w) == Low(Word(Pow2(w) - n), w)

Ok(r) == r.status = "Ok"

\* impl_int_readers: ReadValue::read = read_u64($t::BITS).map(|v| v as $t)
int_read(buf, pos, ty, dbg) ==
    Bind(read_u64(buf, pos, ty.bits, dbg), LAMBDA r : [r EXCEPT !.value = as_int(r.value, ty)])

\* a packed read that extends the sign from the packed width
int_read_packed_sx(buf, pos, ty, bits, dbg) ==
    Bind(read_u64(buf, pos, bits, dbg), LAMBDA r :
        [r EXCEPT !.value = as_int(as_u64(r.value, IntT(bits, ty.signed)), ty)])

\* impl_int_readers: ReadPackedValue::read_packed = read_u64(bits).map(|v| v as $t)
int_read_packed(buf, pos, ty, bits, dbg) ==
    Bind(read_u64(buf, pos, bits, dbg), LAMBDA r : [r EXCEPT !.value = as_int(r.value, ty)])

\* impl_int_readers: WriteValue::write = write_u64(*self as u64, $t::BITS)
int_write(buf, pos, v, ty, dbg) == write_u64(buf, pos, as_u64(v, ty), ty.bits, dbg)

\* impl_int_readers: WritePackedValue::write_packed = write_u64(*self as u64, bits)
int_write_packed(buf, pos, v, ty, bits, dbg) == write_u64(buf, pos, as_u64(v, ty), bits, dbg)

\* Strings are sequences of Unicode scalar values.
\* str::len: the length of the UTF-8 encoding, in bytes
Utf8Len1(c) == IF c < 128 THEN 1 ELSE IF c < 2048 THEN 2 ELSE IF c < 65536 THEN 3 ELSE 4

RECURSIVE str_len_for(_, _, _)
str_len_for(str, lo, hi) ==
    IF lo > hi THEN 0
    ELSE IF lo = hi THEN Utf8Len1(str[lo])
    ELSE LET mid == (lo + hi) \div 2
         IN  str_len_for(str, lo, mid) + str_len_for(str, mid + 1, hi)

str_len(str) == str_len_for(str, 1, Len(str))

\* str::encode_utf16: the UTF-16 code units, a surrogate pair above U+FFFF
RECURSIVE encode_utf16_for(_, _, _)
encode_utf16_for(str, lo, hi) ==
    IF lo > hi THEN <<>>
    ELSE IF lo = hi
    THEN LET c == str[lo]
         IN  IF c < 65536 THEN <<c>>
             ELSE <<55296 + ((c - 65536) \div 1024), 56320 + ((c - 65536) % 1024)>>
    ELSE LET mid == (lo + hi) \div 2
         IN  encode_utf16_for(str, lo, mid) \o encode_utf16_for(str, mid + 1, hi)

encode_utf16(str) == encode_utf16_for(str, 1, Len(str))

\* str::encode_utf16().count()
RECURSIVE utf16_count_for(_, _, _)
utf16_count_for(str, lo, hi) ==
    IF lo > hi THEN 0
    ELSE IF lo = hi THEN (IF str[lo] < 65536 THEN 1 ELSE 2)
    ELSE LET mid == (lo + hi) \div 2
         IN  utf16_count_for(str, lo, mid) + utf16_count_for(str, mid + 1, hi)

utf16_count(str) == utf16_count_for(str, 1, Len(str))

\* a decoder that never fails: every unit is taken as a scalar value
from_utf16_unchecked(units) == [status |-> "Ok", value |-> units]

\* String::from_utf16: the scalar values, or an error on an unpaired surrogate
RECURSIVE from_utf16(_)
from_utf16(units) ==
    IF units = <<>> THEN [status |-> "Ok", value |-> <<>>]
    ELSE LET u == Head(units)
         IN  IF u < 55296 \/ u > 57343
             THEN LET rest == from_utf16(Tail(units))
                  IN  IF Ok(rest) THEN [rest EXCEPT !.value = <<u>> \o rest.value] ELSE rest
             ELSE IF u <= 56319 /\ Len(units) >= 2 /\ units[2] >= 56320 /\ units[2] <= 57343
             THEN LET rest == from_utf16(Tail(Tail(units)))
                      c == 65536 + (u - 55296) * 1024 + (units[2] - 56320)
                  IN  IF Ok(rest) THEN [rest EXCEPT !.value = <<c>> \o rest.value] ELSE rest
             ELSE [status |-> "FromUtf16", value |-> <<>>]

RECURSIVE ReadValue_read(_, _, _, _)
RECURSIVE WriteValue_write(_, _, _, _, _)
RECURSIVE WriteValue_bits(_, _, _)

\* one iteration of `while vec.len() < length { vec.push(ReadValue::read(reader)?) }`
read_array_step(buf, dbg, elem, s) ==
    Bind(ReadValue_read(buf, s.position, elem, dbg), LAMBDA r :
        IF Ok(r) THEN [s EXCEPT !.position = r.position, !.value = Append(s.value, r.value)]
        ELSE [status |-> r.status, value |-> <<>>, position |-> r.position])

\* n iterations of that loop, in order, stopping at the first `?`
RECURSIVE read_array_for(_, _, _, _, _)
read_array_for(buf, dbg, elem, s0, n) ==
    Bind(s0, LAMBDA s :
        IF n <= 0 \/ ~Ok(s) THEN s
        ELSE IF n = 1 THEN read_array_step(buf, dbg, elem, s)
        ELSE read_array_for(buf, dbg, elem, read_array_for(buf, dbg, elem, s, n \div 2),
                            n - (n \div 2)))

\* the iterations of `while vec.len() < length` that can run at all: every
\* element type takes at least one bit, so the iteration after the last bit of
\* the buffer fails and the ones after it are never reached
reachable_iterations(buf, pos, length) ==
    LET left == IF pos >= 8 * Len(buf) THEN 0 ELSE 8 * Len(buf) - pos
    IN  IF length <= left THEN length ELSE left + 1

\* ReadArrayValue for Vec<Item>
read_array(buf, pos, elem, length, dbg) ==
    read_array_for(buf, dbg, elem, [status |-> "Ok", value |-> <<>>, position |-> pos],
                   reachable_iterations(buf, pos, length))

\* one iteration of `while vec.len() < length { vec.push(read_packed(reader, bits)?) }`
read_packed_array_step(buf, dbg, elem, bits, s) ==
    Bind(int_read_packed(buf, s.position, elem, bits, dbg), LAMBDA r :
        IF Ok(r) THEN [s EXCEPT !.position = r.position, !.value = Append(s.value, r.value)]
        ELSE [status |-> r.status, value |-> <<>>, position |-> r.position])

RECURSIVE read_packed_array_for(_, _, _, _, _, _)
read_packed_array_for(buf, dbg, elem, bits, s0, n) ==
    Bind(s0, LAMBDA s :
        IF n <= 0 \/ ~Ok(s) THEN s
        ELSE IF n = 1 THEN read_packed_array_step(buf, dbg, elem, bits, s)
        ELSE read_packed_array_for(buf, dbg, elem, bits,
                                   read_packed_array_for(buf, dbg, elem, bits, s, n \div 2),
                                   n - (n \div 2)))

\* ReadPackedArrayValue for Vec<Item>
read_packed_array(buf, pos, elem, length, bits, dbg) ==
    read_packed_array_for(buf, dbg, elem, bits,
                          [status |-> "Ok", value |-> <<>>, position |-> pos], length)

\* the items lo..hi of `self.iter().try_for_each(|item| WriteValue::write(item, writer))`
RECURSIVE write_array_for(_, _, _, _, _, _)
write_array_for(dbg, elem, items, s0, lo, hi) ==
    Bind(s0, LAMBDA s :
        IF lo > hi \/ ~Ok(s) THEN s
        ELSE IF lo = hi THEN WriteValue_write(s.buffer, s.position, items[lo], elem, dbg)
        ELSE LET mid == (lo + hi) \div 2
             IN  write_array_for(dbg, elem, items,
                                 write_array_for(dbg, elem, items, s, lo, mid), mid + 1, hi))

\* WriteArrayValue for Vec<Item>: write_array
write_array(buf, pos, items, elem, dbg) ==
    write_array_for(dbg, elem, items, [status |-> "Ok", buffer |-> buf, position |-> pos],
                    1, Len(items))

\* WriteArrayValue for Vec<Item>: bits_array = fold(0, |bits, item| bits + item.bits())
RECURSIVE bits_array(_, _, _)
bits_array(items, elem, dbg) ==
    IF items = <<>> THEN [status |-> "Ok", value |-> 0]
    ELSE Bind(WriteValue_bits(Head(items), elem, dbg), LAMBDA h :
         Bind(bits_array(Tail(items), elem, dbg), LAMBDA t :
             IF ~Ok(h) THEN h ELSE IF ~Ok(t) THEN t
             ELSE [status |-> "Ok", value |-> h.value + t.value]))

RECURSIVE write_packed_array_for(_, _, _, _, _, _, _)
write_packed_array_for(dbg, elem, bits, items, s0, lo, hi) ==
    Bind(s0, LAMBDA s :
        IF lo > hi \/ ~Ok(s) THEN s
        ELSE IF lo = hi
        THEN int_write_packed(s.buffer, s.position, items[lo], elem, bits, dbg)
        ELSE LET mid == (lo + hi) \div 2
             IN  write_packed_array_for(dbg, elem, bits, items,
                     write_packed_array_for(dbg, elem, bits, items, s, lo, mid), mid + 1, hi))

\* WritePackedArrayValue for Vec<Item>: write_packed_array
write_packed_array(buf, pos, items, elem, bits, dbg) ==
    write_packed_array_for(dbg, elem, bits, items,
                           [status |-> "Ok", buffer |-> buf, position |-> pos], 1, Len(items))

\* WritePackedArrayValue for Vec<Item>: bits_packed_array = self.len() * bits
bits_packed_array(items, bits) == Len(items) * bits

\* ReadValue for String
String_read(buf, pos, dbg) ==
    Bind(read_bit(buf, pos), LAMBDA extended :
        IF ~Ok(extended)
        THEN [status |-> extended.status, value |-> <<>>, position |-> extended.position]
        ELSE
    Bind(int_read_packed(buf, extended.position, usize,
                         IF extended.bit THEN 15 ELSE 7, dbg), LAMBDA length :
        IF ~Ok(length)
        THEN [status |-> length.status, value |-> <<>>, position |-> length.position]
        ELSE
    Bind(read_array(buf, length.position, u16, ToNat(length.value), dbg), LAMBDA vec :
        IF ~Ok(vec)
        THEN [status |-> vec.status, value |-> <<>>, position |-> vec.position]
        ELSE
    Bind(from_utf16([k \in 1..Len(vec.value) |-> ToNat(vec.value[k])]), LAMBDA str :
        [status |-> str.status, value |-> str.value, position |-> vec.position]))))

\* `self.encode_utf16().try_for_each(|part| part.write(writer))` over the chars
\* lo..hi of str: the units of a char are produced as they are written, and the
\* first `?` ends the iteration
RECURSIVE str_write_for(_, _, _, _, _)
str_write_for(dbg, str, s0, lo, hi) ==
    Bind(s0, LAMBDA s :
        IF lo > hi \/ ~Ok(s) THEN s
        ELSE IF lo = hi
        THEN Bind(encode_utf16(<<str[lo]>>), LAMBDA units :
                 write_array(s.buffer, s.position,
                             [k \in 1..Len(units) |-> Word(units[k])], u16, dbg))
        ELSE LET mid == (lo + hi) \div 2
             IN  str_write_for(dbg, str, str_write_for(dbg, str, s, lo, mid), mid + 1, hi))

\* WriteValue for str: write.  debug_assert!(self.len() < 32768) panics only
\* when debug assertions are on.
str_write(buf, pos, str, dbg) ==
    Bind(str_len(str), LAMBDA len :
        LET extended == len > 127
            length_bits == IF extended THEN 15 ELSE 7
        IN  IF dbg /\ ~(len < 32768)
            THEN [status |-> "Panic", buffer |-> buf, position |-> pos]
            ELSE
        Bind(write_bit(buf, pos, extended), LAMBDA w1 :
            IF ~Ok(w1) THEN w1 ELSE
        Bind(int_write_packed(w1.buffer, w1.position, Word(len), usize,
                              length_bits, dbg), LAMBDA w2 :
            IF ~Ok(w2) THEN w2
            ELSE str_write_for(dbg, str, w2, 1, Len(str)))))

\* WriteValue for str: bits
str_bits(str, dbg) ==
    Bind(str_len(str), LAMBDA len :
        LET extended == len > 127
            length_bits == IF extended THEN 15 ELSE 7
            content_bits == 16 * utf16_count(str)
        IN  IF dbg /\ ~(len < 32768)
            THEN [status |-> "Panic", value |-> 0]
            ELSE [status |-> "Ok", value |-> length_bits + content_bits])

----------------------------------------------------------------------------
(* Code generated by #[derive(MessageStruct)] and #[derive(MessageUnion)]:   *)
(* crates/ws_messages/macros/src/lib.rs.  A record type is the sequence of   *)
(* its field descriptors; a record value maps the field names to values; a   *)
(* union value is [variant |-> 0-based index, fields |-> record value].      *)

\* FieldMetadata, as get_field_metadata builds it from the field's attributes
Simple == [kind |-> "Simple"]
Packed(bits) == [kind |-> "Packed", bits |-> bits]
Array(length) == [kind |-> "Array", length |-> length]
PackedArray(bits, length) == [kind |-> "PackedArray", bits |-> bits, length |-> length]
Union(variant) == [kind |-> "Union", variant |-> variant]

\* a field: its ident, type, metadata and whether it carries #[aligned]
Field(name, ty, meta, aligned) ==
    [name |-> name, ty |-> ty, meta |-> meta, aligned |-> aligned]

FieldNamed(fds, name) == fds[CHOOSE k \in 1..Len(fds) : fds[k].name = name]

\* `#length as usize` / `#variant as usize`, as a number.  A value of 2^12 or
\* more stands for "more than any buffer of the model holds".
as_usize(v, ty) ==
    LET w == as_u64(v, ty) IN IF w \subseteq 0..11 THEN ToNat(w) ELSE Pow2(12)

RECURSIVE fields_read_from(_, _, _, _, _)
RECURSIVE fields_write_from(_, _, _, _, _)
RECURSIVE fields_bits_from(_, _, _, _, _)

fields_read(buf, pos, fds, dbg) ==
    fields_read_from(buf, dbg, fds, 1, [status |-> "Ok", value |-> <<>>, position |-> pos])

fields_write(buf, pos, v, fds, dbg) ==
    fields_write_from(dbg, fds, v, 1, [status |-> "Ok", buffer |-> buf, position |-> pos])

fields_bits(v, fds, dbg) ==
    fields_bits_from(dbg, fds, v, 1, [status |-> "Ok", value |-> 0])

read_union_default(buf, pos, variants, variant_, dbg) ==
    Bind(fields_read(buf, pos, variants[IF variant_ < Len(variants)
                                        THEN variant_ + 1 ELSE 1], dbg), LAMBDA r :
        [r EXCEPT !.value = [variant |-> IF variant_ < Len(variants) THEN variant_ ELSE 0,
                             fields |-> r.value]])

\* a dispatch that counts the variants from the last one
read_union_reversed(buf, pos, variants, variant_, dbg) ==
    IF variant_ < Len(variants)
    THEN Bind(fields_read(buf, pos, variants[Len(variants) - variant_], dbg), LAMBDA r :
             [r EXCEPT !.value = [variant |-> Len(variants) - 1 - variant_,
                                  fields |-> r.value]])
    ELSE [status |-> "Panic", value |-> <<>>, position |-> pos]

\* derive_message_union: ReadUnionValue::read_union.  `match variant_` has one
\* arm per variant index and `_ => panic!("Invalid union variant {}")`.
read_union(buf, pos, variants, variant_, dbg) ==
    IF variant_ < Len(variants)
    THEN Bind(fields_read(buf, pos, variants[variant_ + 1], dbg), LAMBDA r :
             [r EXCEPT !.value = [variant |-> variant_, fields |-> r.value]])
    ELSE [status |-> "Panic", value |-> <<>>, position |-> pos]

\* derive_message_union: UnionVariant::variant
variant(v) == v.variant

\* a union write that puts the index of the variant, as a u8, before its fields
union_write_tagged(buf, pos, v, variants, dbg) ==
    Bind(int_write(buf, pos, Word(v.variant), u8, dbg), LAMBDA t :
        IF ~Ok(t) THEN t
        ELSE fields_write(t.buffer, t.position, v.fields, variants[v.variant + 1], dbg))

\* derive_message_union: WriteValue::write, `match self` on the value's own variant
union_write(buf, pos, v, variants, dbg) ==
    fields_write(buf, pos, v.fields, variants[v.variant + 1], dbg)

\* derive_message_union: WriteValue::bits is `0 // TODO`
union_bits(v, variants) == 0

\* ReadValue::read(reader) for a value of type ty
ReadValue_read(buf, pos, ty, dbg) ==
    CASE ty.kind = "int" -> int_read(buf, pos, ty, dbg)
      [] ty.kind = "bool" ->
            Bind(read_bit(buf, pos), LAMBDA r :
                [status |-> r.status, value |-> r.bit, position |-> r.position])
      [] ty.kind = "String" -> String_read(buf, pos, dbg)
      [] ty.kind = "struct" -> fields_read(buf, pos, ty.fields, dbg)

\* WriteValue::write(value, writer) for a value of type ty
WriteValue_write(buf, pos, v, ty, dbg) ==
    CASE ty.kind = "int" -> int_write(buf, pos, v, ty, dbg)
      [] ty.kind = "bool" -> write_bit(buf, pos, v)
      [] ty.kind = "String" -> str_write(buf, pos, v, dbg)
      [] ty.kind = "struct" -> fields_write(buf, pos, v, ty.fields, dbg)
      [] ty.kind = "union" -> union_write(buf, pos, v, ty.variants, dbg)

\* WriteValue::bits(value) for a value of type ty
WriteValue_bits(v, ty, dbg) ==
    CASE ty.kind = "int" -> [status |-> "Ok", value |-> ty.bits]
      [] ty.kind = "bool" -> [status |-> "Ok", value |-> 1]
      [] ty.kind = "String" -> str_bits(v, dbg)
      [] ty.kind = "struct" -> fields_bits(v, ty.fields, dbg)
      [] ty.kind = "union" -> [status |-> "Ok", value |-> union_bits(v, ty.variants)]

\* get_read_expr: the read of one value of type ty under the field's metadata;
\* env holds the fields read so far (`let #field_idents = ...`)
get_read_expr(buf, pos, fds, meta, ty, env, dbg) ==
    CASE meta.kind = "Simple" -> ReadValue_read(buf, pos, ty, dbg)
      [] meta.kind = "Packed" -> int_read_packed(buf, pos, ty, meta.bits, dbg)
      [] meta.kind = "Array" ->
            read_array(buf, pos, ty.elem,
                       as_usize(env[meta.length], FieldNamed(fds, meta.length).ty), dbg)
      [] meta.kind = "PackedArray" ->
            read_packed_array(buf, pos, ty.elem,
                       as_usize(env[meta.length], FieldNamed(fds, meta.length).ty),
                       meta.bits, dbg)
      [] meta.kind = "Union" ->
            read_union(buf, pos, ty.variants,
                       as_usize(env[meta.variant], FieldNamed(fds, meta.variant).ty), dbg)

\* get_field_read, Type::Array: `for item in &mut result { *item = #read_expr }`
RECURSIVE array_items_read(_, _, _, _, _, _)
array_items_read(buf, dbg, fds, f, env, s0) ==
    Bind(s0, LAMBDA s :
        IF Len(s.value) >= f.ty.len \/ ~Ok(s) THEN s
        ELSE Bind(get_read_expr(buf, s.position, fds, f.meta, f.ty.elem, env, dbg), LAMBDA r :
                 array_items_read(buf, dbg, fds, f, env,
                     IF Ok(r) THEN [s EXCEPT !.position = r.position,
                                             !.value = Append(s.value, r.value)]
                     ELSE [status |-> r.status, value |-> <<>>, position |-> r.position])))

\* get_field_read: `{ reader_.align()?; #read_expr }`
get_field_read(buf, dbg, fds, f, s) ==
    Bind(IF f.aligned THEN reader_align(buf, s.position)
         ELSE [status |-> "Ok", position |-> s.position], LAMBDA a :
        IF ~Ok(a) THEN [status |-> a.status, value |-> <<>>, position |-> a.position]
        ELSE
    Bind(IF f.ty.kind = "array"
         THEN array_items_read(buf, dbg, fds, f, s.value,
                  [status |-> "Ok", value |-> <<>>, position |-> a.position])
         ELSE get_read_expr(buf, a.position, fds, f.meta, f.ty, s.value, dbg), LAMBDA r :
        IF ~Ok(r) THEN [status |-> r.status, value |-> <<>>, position |-> r.position]
        ELSE [status |-> "Ok", value |-> s.value @@ (f.name :> r.value),
              position |-> r.position]))

\* a read that stops at a failing field and returns the fields read so far
RECURSIVE fields_read_partial(_, _, _, _, _)
fields_read_partial(buf, dbg, fds, i, s0) ==
    Bind(s0, LAMBDA s :
        IF i > Len(fds) THEN s
        ELSE Bind(get_field_read(buf, dbg, fds, fds[i], s), LAMBDA r :
                 IF Ok(r) THEN fields_read_partial(buf, dbg, fds, i + 1, r)
                 ELSE [s EXCEPT !.position = r.position]))

\* derive_message_struct: ReadValue::read, `#(let #field_idents = #field_reads;)*`
fields_read_from(buf, dbg, fds, i, s0) ==
    Bind(s0, LAMBDA s :
        IF i > Len(fds) \/ ~Ok(s) THEN s
        ELSE fields_read_from(buf, dbg, fds, i + 1, get_field_read(buf, dbg, fds, fds[i], s)))

\* get_write_expr: the write of one value of type ty under the field's metadata
get_write_expr(buf, pos, meta, ty, v, dbg) ==
    CASE meta.kind = "Simple" -> WriteValue_write(buf, pos, v, ty, dbg)
      [] meta.kind = "Packed" -> int_write_packed(buf, pos, v, ty, meta.bits, dbg)
      [] meta.kind = "Array" -> write_array(buf, pos, v, ty.elem, dbg)
      [] meta.kind = "PackedArray" -> write_packed_array(buf, pos, v, ty.elem, meta.bits, dbg)
      [] meta.kind = "Union" -> WriteValue_write(buf, pos, v, ty, dbg)

\* get_field_write, Type::Array: `for item in #field_access { #write_expr }`
RECURSIVE array_items_write(_, _, _, _, _)
array_items_write(dbg, f, items, k, s0) ==
    Bind(s0, LAMBDA s :
        IF k > Len(items) \/ ~Ok(s) THEN s
        ELSE array_items_write(dbg, f, items, k + 1,
                 get_write_expr(s.buffer, s.position, f.meta, f.ty.elem, items[k], dbg)))

\* a field write that never aligns
get_field_write_noalign(dbg, f, v, s) ==
    IF f.ty.kind = "array" THEN array_items_write(dbg, f, v, 1, s)
    ELSE get_write_expr(s.buffer, s.position, f.meta, f.ty, v, dbg)

\* get_field_write: `{ writer_.align()?; #write_expr }`
get_field_write(dbg, f, v, s) ==
    Bind(IF f.aligned THEN writer_align(s.buffer, s.position) ELSE s, LAMBDA a :
        IF ~Ok(a) THEN a
        ELSE IF f.ty.kind = "array" THEN array_items_write(dbg, f, v, 1, a)
        ELSE get_write_expr(a.buffer, a.position, f.meta, f.ty, v, dbg))

\* derive_message_struct: WriteValue::write, `#(#field_writes;)*`
fields_write_from(dbg, fds, v, i, s0) ==
    Bind(s0, LAMBDA s :
        IF i > Len(fds) \/ ~Ok(s) THEN s
        ELSE fields_write_from(dbg, fds, v, i + 1,
                               get_field_write(dbg, fds[i], v[fds[i].name], s)))

\* a size that takes a packed field at its native width
get_bits_expr_native(meta, ty, v, dbg) ==
    CASE meta.kind \in {"Simple", "Union"} -> WriteValue_bits(v, ty, dbg)
      [] meta.kind = "Packed" -> [status |-> "Ok", value |-> ty.bits]
      [] meta.kind = "Array" -> bits_array(v, ty.elem, dbg)
      [] meta.kind = "PackedArray" ->
            [status |-> "Ok", value |-> bits_packed_array(v, ty.elem.bits)]

\* get_bits_expr: the bits of one value of type ty under the field's metadata
get_bits_expr(meta, ty, v, dbg) ==
    CASE meta.kind = "Simple" -> WriteValue_bits(v, ty, dbg)
      [] meta.kind = "Packed" -> [status |-> "Ok", value |-> meta.bits]
      [] meta.kind = "Array" -> bits_array(v, ty.elem, dbg)
      [] meta.kind = "PackedArray" ->
            [status |-> "Ok", value |-> bits_packed_array(v, meta.bits)]
      [] meta.kind = "Union" -> WriteValue_bits(v, ty, dbg)

\* get_field_bits, Type::Array: `for item in #field_access { #bits_expr; }`
RECURSIVE array_items_bits(_, _, _, _, _)
array_items_bits(dbg, f, items, k, s0) ==
    Bind(s0, LAMBDA s :
        IF k > Len(items) \/ ~Ok(s) THEN s
        ELSE Bind(get_bits_expr(f.meta, f.ty.elem, items[k], dbg), LAMBDA b :
                 array_items_bits(dbg, f, items, k + 1,
                     IF Ok(b) THEN [s EXCEPT !.value = s.value + b.value] ELSE b)))

\* get_field_bits: `{ bits_ += 8 - (bits_ % 8); bits_ += ... }`
get_field_bits(dbg, f, v, s) ==
    Bind(IF f.aligned THEN [s EXCEPT !.value = s.value + (8 - (s.value % 8))] ELSE s,
         LAMBDA a :
        IF f.ty.kind = "array" THEN array_items_bits(dbg, f, v, 1, a)
        ELSE Bind(get_bits_expr(f.meta, f.ty, v, dbg), LAMBDA b :
                 IF Ok(b) THEN [a EXCEPT !.value = a.value + b.value] ELSE b))

\* derive_message_struct: WriteValue::bits, `let mut bits_ = 0; #(#field_bits;)* bits_`
fields_bits_from(dbg, fds, v, i, s0) ==
    Bind(s0, LAMBDA s :
        IF i > Len(fds) \/ ~Ok(s) THEN s
        ELSE fields_bits_from(dbg, fds, v, i + 1,
                              get_field_bits(dbg, fds[i], v[fds[i].name], s)))

----------------------------------------------------------------------------
(* Inputs of the cursor runs *)

Fill(n, f) == [i \in 1..n |-> f]

\* 2f 00 00 02 40: the first bytes of the packet of test_simple_message
Header == <<Word(47), Word(0), Word(0), Word(2), Word(64)>>

\* encoded strings: length 1, unit d800; length 2, units d83d de00 (U+1F600);
\* length 2, units de00 d83d
LoneSurrogate == <<Word(2), Word(0), Word(216)>>
SurrogatePair == <<Word(4), Word(61), Word(216), Word(0), Word(222)>>
ReversedPair == <<Word(4), Word(0), Word(222), Word(61), Word(216)>>

Buffers == {Fill(n, f) : n \in {0, 1, 2, MaxLen}, f \in {Word(0), Word(165), Word(255)}}
               \cup {Header, LoneSurrogate, SurrogatePair, ReversedPair}

\* with_position takes any usize: positions inside, at the end of and past the buffer
StartPositions(buf) == {p \in 0..(8 * Len(buf) + 9) :
                            \/ p \in {0, 1, 5, 8}
                            \/ p >= 8 * Len(buf) - 1}

BitCounts == {0, 1, 3, 8, 11, 24, 32, 64, 65, 8 * MaxLen + 1}

\* (value, bits) arguments of write_u64
WriteArgs == {<<Word(5), 3>>, <<Word(47), 24>>, <<Word(2), 11>>, <<{}, 0>>, <<AllOnes, 0>>,
              <<{}, 8>>, <<AllOnes, 8>>, <<{}, 32>>, <<{0, 31, 40}, 32>>,
              <<AllOnes, 64>>, <<{63}, 64>>, <<{}, 65>>, <<AllOnes, 65>>,
              <<AllOnes, 8 * MaxLen + 1>>}

ByteRuns == {<<Word(255)>>, <<Word(1), Word(128)>>}

\* lengths given to read_array / read_packed_array, and packed widths
ArrayLengths == {0, 2, 5}
PackedWidths == {0, 5, 65}

\* prev: the operation called before this one, and whether it returned Ok
\* bytes: the byte run, Vec or String an operation took or returned;
\* width: the packed width an operation was given
NoCall == [op |-> "none", n |-> 0, arg |-> {}, status |-> "Ok", bit |-> FALSE,
           value |-> {}, bytes |-> <<>>, buffer0 |-> <<>>, position0 |-> 0,
           prev |-> "none", prev_ok |-> TRUE, width |-> 0]

Call(op, n, arg, status) ==
    [NoCall EXCEPT !.op = op, !.n = n, !.arg = arg, !.status = status,
                   !.buffer0 = buffer, !.position0 = position,
                   !.prev = last.op, !.prev_ok = (last.status = "Ok")]

NoFields == <<>>
NoDone == [phase |-> "none", k |-> 0, start |-> 0, out |-> <<>>]
NoBits == [status |-> "none", value |-> 0]
NoMsg == [pc |-> "none", ty |-> "none", input |-> <<>>, start |-> 0, bits |-> NoBits,
          written |-> 0, status |-> "Ok", output |-> <<>>]

----------------------------------------------------------------------------
(* Spec: one cursor over one buffer, any operations *)

Init ==
    /\ debug_build \in BOOLEAN
    /\ buffer \in Buffers
    /\ cursor = "none"
    /\ position = 0
    /\ last = NoCall
    /\ ops = 0
    /\ fields = NoFields
    /\ done = NoDone
    /\ msg = NoMsg

Scenario == UNCHANGED <<debug_build, fields, done, msg>>

\* a panic unwinds through the caller: the cursor is not used again
Alive(kind) == cursor = kind /\ last.status # "Panic" /\ ops < MaxOps

\* BitPackReader::new
ReaderNew ==
    /\ cursor = "none"
    /\ cursor' = "reader"
    /\ position' = 0
    /\ last' = Call("new", 0, {}, "Ok")
    /\ UNCHANGED <<buffer, ops>> /\ Scenario

\* BitPackReader::with_position
ReaderWithPosition ==
    /\ cursor = "none"
    /\ \E p \in StartPositions(buffer) :
        /\ cursor' = "reader"
        /\ position' = p
        /\ last' = Call("with_position", p, {}, "Ok")
    /\ UNCHANGED <<buffer, ops>> /\ Scenario

\* BitPackWriter::new
WriterNew ==
    /\ cursor = "none"
    /\ cursor' = "writer"
    /\ position' = 0
    /\ last' = Call("new", 0, {}, "Ok")
    /\ UNCHANGED <<buffer, ops>> /\ Scenario

\* BitPackWriter::with_position
WriterWithPosition ==
    /\ cursor = "none"
    /\ \E p \in StartPositions(buffer) :
        /\ cursor' = "writer"
        /\ position' = p
        /\ last' = Call("with_position", p, {}, "Ok")
    /\ UNCHANGED <<buffer, ops>> /\ Scenario

ReadBit ==
    /\ Alive("reader")
    /\ LET r == read_bit(buffer, position)
       IN  /\ position' = r.position
           /\ last' = [Call("read_bit", 1, {}, r.status) EXCEPT !.bit = r.bit]
    /\ ops' = ops + 1
    /\ UNCHANGED <<buffer, cursor>> /\ Scenario

ReadU64 ==
    /\ Alive("reader")
    /\ \E bits \in BitCounts :
        LET r == read_u64(buffer, position, bits, debug_build)
        IN  /\ position' = r.position
            /\ last' = [Call("read_u64", bits, {}, r.status) EXCEPT !.value = r.value]
    /\ ops' = ops + 1
    /\ UNCHANGED <<buffer, cursor>> /\ Scenario

ReaderAlign ==
    /\ Alive("reader")
    /\ LET r == reader_align(buffer, position)
       IN  /\ position' = r.position
           /\ last' = Call("align", 0, {}, r.status)
    /\ ops' = ops + 1
    /\ UNCHANGED <<buffer, cursor>> /\ Scenario

ReadBytes ==
    /\ Alive("reader")
    /\ \E n \in {1, 2} :
        LET r == read_bytes(buffer, position, n, debug_build)
        IN  /\ position' = r.position
            /\ last' = [Call("read_bytes", n, {}, r.status) EXCEPT !.bytes = r.bytes]
    /\ ops' = ops + 1
    /\ UNCHANGED <<buffer, cursor>> /\ Scenario

\* reader.read_array::<Vec<u16>>(length)
ReadArray ==
    /\ Alive("reader")
    /\ \E length \in ArrayLengths :
        LET r == read_array(buffer, position, u16, length, debug_build)
        IN  /\ position' = r.position
            /\ last' = [Call("read_array", length, {}, r.status)
                            EXCEPT !.bytes = r.value, !.width = 16]
    /\ ops' = ops + 1
    /\ UNCHANGED <<buffer, cursor>> /\ Scenario

\* reader.read_packed_array::<Vec<u32>>(length, bits)
ReadPackedArray ==
    /\ Alive("reader")
    /\ \E length \in ArrayLengths, bits \in PackedWidths :
        LET r == read_packed_array(buffer, position, u32, length, bits, debug_build)
        IN  /\ position' = r.position
            /\ last' = [Call("read_packed_array", length, {}, r.status)
                            EXCEPT !.bytes = r.value, !.width = bits]
    /\ ops' = ops + 1
    /\ UNCHANGED <<buffer, cursor>> /\ Scenario

\* reader.read::<String>()
ReadString ==
    /\ Alive("reader")
    /\ LET r == String_read(buffer, position, debug_build)
       IN  /\ position' = r.position
           /\ last' = [Call("read_string", 0, {}, r.status) EXCEPT !.bytes = r.value]
    /\ ops' = ops + 1
    /\ UNCHANGED <<buffer, cursor>> /\ Scenario

WriteBit ==
    /\ Alive("writer")
    /\ \E b \in BOOLEAN :
        LET r == write_bit(buffer, position, b)
        IN  /\ buffer' = r.buffer
            /\ position' = r.position
            /\ last' = [Call("write_bit", 1, {}, r.status) EXCEPT !.bit = b]
    /\ ops' = ops + 1
    /\ UNCHANGED cursor /\ Scenario

WriteU64 ==
    /\ Alive("writer")
    /\ \E a \in WriteArgs :
        LET r == write_u64(buffer, position, a[1], a[2], debug_build)
        IN  /\ buffer' = r.buffer
            /\ position' = r.position
            /\ last' = Call("write_u64", a[2], a[1], r.status)
    /\ ops' = ops + 1
    /\ UNCHANGED cursor /\ Scenario

WriterAlign ==
    /\ Alive("writer")
    /\ LET r == writer_align(buffer, position)
       IN  /\ buffer' = r.buffer
           /\ position' = r.position
           /\ last' = Call("align", 0, {}, r.status)
    /\ ops' = ops + 1
    /\ UNCHANGED cursor /\ Scenario

WriteBytes ==
    /\ Alive("writer")
    /\ \E bytes \in ByteRuns :
        LET r == write_bytes(buffer, position, bytes, debug_build)
        IN  /\ buffer' = r.buffer
            /\ position' = r.position
            /\ last' = [Call("write_bytes", Len(bytes), {}, r.status) EXCEPT !.bytes = bytes]
    /\ ops' = ops + 1
    /\ UNCHANGED cursor /\ Scenario

Next ==
    \/ ReaderNew \/ ReaderWithPosition \/ WriterNew \/ WriterWithPosition
    \/ ReadBit \/ ReadU64 \/ ReaderAlign \/ ReadBytes \/ ReadArray \/ ReadPackedArray
    \/ ReadString
    \/ WriteBit \/ WriteU64 \/ WriterAlign \/ WriteBytes

Spec == Init /\ [][Next]_vars

----------------------------------------------------------------------------
(* Properties of the cursor operations, checked under Spec *)

\* bit k of the stream held by buf: (buf[k / 8] >> (k % 8)) & 1
StreamBit(buf, k) == (k % 8) \in buf[(k \div 8) + 1]

\* number of bits between pos and the end of buf
Remaining(buf, pos) == IF pos >= 8 * Len(buf) THEN 0 ELSE 8 * Len(buf) - pos

\* C4: read_bit returns OutOfBounds exactly when position / 8 >= len(buffer), and
\* read_u64(n) returns OutOfBounds whenever fewer than n bits remain.
C4_ReadOutOfBounds ==
    /\ last.op = "read_bit" =>
          (last.status = "OutOfBounds" <=> last.position0 \div 8 >= Len(last.buffer0))
    /\ last.op = "read_u64" /\ Remaining(last.buffer0, last.position0) < last.n =>
          last.status = "OutOfBounds"

\* C5: write_u64(v, n) returns Ok when position + n <= 8 * len and OutOfBounds
\* otherwise; after 8 bits written into a 1-byte buffer a 32-bit write returns
\* OutOfBounds and leaves the buffer as the first write left it.
C5_WriteOutOfBounds ==
    /\ (last.op = "write_u64" /\ last.position0 <= 8 * Len(last.buffer0)) =>
          IF last.position0 + last.n <= 8 * Len(last.buffer0)
          THEN last.status = "Ok"
          ELSE last.status = "OutOfBounds"
    /\ (/\ last.op = "write_u64" /\ last.n = 32 /\ Len(buffer) = 1
        /\ last.position0 = 8 /\ last.prev = "write_u64" /\ last.prev_ok) =>
          (last.status = "OutOfBounds" /\ buffer = last.buffer0 /\ Len(buffer) = 1)

\* C6: a successful read_u64(n), n <= 64, returns the bits p..p+n-1 of the stream
\* least significant first and advances position by n; read_u64(0) returns 0 and
\* leaves position unchanged; 24 then 11 bits of 2f 00 00 02 .. are 47 then 2.
C6_LsbFirstRead ==
    last.op = "read_u64" /\ last.n <= 64 /\ last.status = "Ok" =>
        /\ last.value = {i \in 0..(last.n - 1) : StreamBit(last.buffer0, last.position0 + i)}
        /\ position = last.position0 + last.n
        /\ last.n = 0 => (last.value = {} /\ position = last.position0)
        /\ (buffer = Header /\ last.position0 = 0 /\ last.n = 24) => last.value = Word(47)
        /\ (buffer = Header /\ last.position0 = 24 /\ last.n = 11) => last.value = Word(2)

\* a read of 11 bits that starts at bit 24 of the header and spans two bytes
C6_Witness ==
    /\ last.op = "read_u64" /\ last.status = "Ok" /\ buffer = Header
    /\ last.prev = "read_u64" /\ last.position0 = 24 /\ last.n = 11
    /\ last.value = Word(2) /\ position = 35

\* C8: align() at a multiple of 8 changes neither position nor buffer; at another
\* in-bounds position it moves to the next multiple of 8; align() called twice in
\* a row leaves the position and buffer the first call left.
C8_Align ==
    last.op = "align" =>
        /\ last.position0 % 8 = 0 =>
              (last.status = "Ok" /\ position = last.position0 /\ buffer = last.buffer0)
        /\ (last.position0 % 8 # 0 /\ last.position0 < 8 * Len(last.buffer0)) =>
              (last.status = "Ok" /\ position = 8 * ((last.position0 \div 8) + 1))
        /\ (last.prev = "align" /\ last.prev_ok) =>
              (last.status = "Ok" /\ position = last.position0 /\ buffer = last.buffer0)

\* a second align() in a row, after a first one that moved an unaligned writer
C8_Witness ==
    /\ last.op = "align" /\ last.prev = "align" /\ last.prev_ok /\ last.status = "Ok"
    /\ cursor = "writer" /\ position = 8 /\ Len(buffer) >= 1

\* C9: 0 <= position <= 8 * len(buffer) in every state of a reader or writer.
C9_PositionInBounds ==
    cursor # "none" => (0 <= position /\ position <= 8 * Len(buffer))

\* C10: no operation of the reader or writer panics, whatever its arguments.
C10_NoPanic == last.status # "Panic"

\* the w bits of buf from bit p on, as an unsigned value
Window(buf, p, w) == {i \in 0..(w - 1) : StreamBit(buf, p + i)}

\* C11: read_array(length) and read_packed_array(length, bits) return a Vec of
\* exactly length elements, in stream order, having consumed length * width
\* bits, or return an error when the buffer ends first.
C11_LengthReferencedArrays ==
    last.op \in {"read_array", "read_packed_array"} =>
        IF Remaining(last.buffer0, last.position0) >= last.n * last.width
        THEN /\ last.status = "Ok"
             /\ Len(last.bytes) = last.n
             /\ position = last.position0 + last.n * last.width
             /\ last.width <= 64 =>
                   \A j \in 1..last.n :
                       last.bytes[j] = Low(Window(last.buffer0,
                                                  last.position0 + (j - 1) * last.width,
                                                  last.width), 32)
        ELSE last.status = "OutOfBounds"

\* C18: after writer.align() from an unaligned position p every bit from p to
\* the next byte boundary is 0, and every bit below p and every other byte is
\* as it was.
C18_AlignZeroFill ==
    (/\ last.op = "align" /\ cursor = "writer" /\ last.status = "Ok"
     /\ last.position0 % 8 # 0) =>
        \A k \in 0..(8 * Len(buffer) - 1) :
            StreamBit(buffer, k) =
                IF last.position0 <= k /\ k < 8 * ((last.position0 \div 8) + 1)
                THEN FALSE
                ELSE StreamBit(last.buffer0, k)

\* the writer aligned from bit 5 of a buffer of 0xff bytes: bits 5..7 cleared
C18_Witness ==
    /\ last.op = "align" /\ cursor = "writer" /\ last.status = "Ok"
    /\ last.position0 = 5 /\ position = 8
    /\ last.buffer0 = Fill(MaxLen, Word(255))
    /\ buffer[1] = {0, 1, 2, 3, 4} /\ buffer[2] = Word(255)

\* a sequence of code units is valid UTF-16 when every high surrogate is
\* followed by a low one and every low surrogate follows a high one
HighSurrogate(u) == 55296 <= u /\ u <= 56319
LowSurrogate(u) == 56320 <= u /\ u <= 57343
ValidUtf16(units) ==
    \A k \in 1..Len(units) :
        /\ HighSurrogate(units[k]) => (k < Len(units) /\ LowSurrogate(units[k + 1]))
        /\ LowSurrogate(units[k]) => (k > 1 /\ HighSurrogate(units[k - 1]))

\* C14: String::read never panics; when the buffer holds the whole framed
\* string it returns Err(FromUtf16) if the code units are not valid UTF-16 and
\* Ok with the string they encode if they are.
C14_InvalidUtf16IsError ==
    last.op = "read_string" =>
        /\ last.status # "Panic"
        /\ LET buf == last.buffer0
               p == last.position0
               length_bits == IF StreamBit(buf, p) THEN 15 ELSE 7
               length == ToNat(Window(buf, p + 1, length_bits))
               units == [k \in 1..length |->
                            ToNat(Window(buf, p + 1 + length_bits + 16 * (k - 1), 16))]
           IN  (/\ Remaining(buf, p) >= 1
                /\ Remaining(buf, p) >= 1 + length_bits
                /\ Remaining(buf, p) >= 1 + length_bits + 16 * length) =>
                   IF ValidUtf16(units)
                   THEN last.status = "Ok" /\ encode_utf16(last.bytes) = units
                   ELSE last.status = "FromUtf16"

\* a string of one unpaired surrogate read from the start of its buffer
C14_Witness ==
    /\ last.op = "read_string" /\ last.buffer0 = LoneSurrogate /\ last.position0 = 0
    /\ last.status = "FromUtf16"

----------------------------------------------------------------------------
(* SpecSeq: a sequence of fields written with write_u64 and read back with   *)
(* read_u64 from the same start position                                      *)

SeqArgs == {<<Word(5), 3>>, <<AllOnes, 1>>, <<{}, 0>>, <<Word(47), 24>>,
            <<{0, 40, 63}, 64>>, <<Word(681), 11>>}

RECURSIVE SeqsUpTo(_, _)
SeqsUpTo(S, n) == IF n = 0 THEN {<<>>}
                  ELSE LET shorter == SeqsUpTo(S, n - 1)
                       IN  shorter \cup {Append(q, x) : q \in shorter, x \in S}

SeqBuffers == {Fill(n, f) : n \in {2, MaxLen}, f \in {Word(0), Word(165), Word(255)}}

InitSeq ==
    /\ debug_build \in BOOLEAN
    /\ buffer \in SeqBuffers
    /\ cursor = "writer"
    /\ position \in {0, 3}
    /\ last = NoCall
    /\ ops = 0
    /\ fields \in SeqsUpTo(SeqArgs, MaxFields) \ {<<>>}
    /\ done = [phase |-> "write", k |-> 0, start |-> position, out |-> <<>>]
    /\ msg = NoMsg

\* writer.write_u64(value, bits) for the next field
SeqWrite ==
    /\ done.phase = "write" /\ done.k < Len(fields)
    /\ LET f == fields[done.k + 1]
           r == write_u64(buffer, position, f[1], f[2], debug_build)
       IN  /\ buffer' = r.buffer
           /\ position' = r.position
           /\ last' = Call("write_u64", f[2], f[1], r.status)
           /\ done' = IF r.status = "Ok" THEN [done EXCEPT !.k = done.k + 1]
                      ELSE [done EXCEPT !.phase = "write_failed"]
    /\ ops' = ops + 1
    /\ UNCHANGED <<debug_build, cursor, fields, msg>>

\* the writer is dropped; BitPackReader::with_position(&buffer, start)
SeqTurn ==
    /\ done.phase = "write" /\ done.k = Len(fields)
    /\ cursor' = "reader"
    /\ position' = done.start
    /\ last' = Call("with_position", done.start, {}, "Ok")
    /\ done' = [done EXCEPT !.phase = "read", !.k = 0]
    /\ UNCHANGED <<debug_build, buffer, ops, fields, msg>>

\* reader.read_u64(bits) for the next field
SeqRead ==
    /\ done.phase = "read" /\ done.k < Len(fields)
    /\ LET f == fields[done.k + 1]
           r == read_u64(buffer, position, f[2], debug_build)
       IN  /\ position' = r.position
           /\ last' = [Call("read_u64", f[2], {}, r.status) EXCEPT !.value = r.value]
           /\ done' = IF r.status = "Ok"
                      THEN [done EXCEPT !.k = done.k + 1, !.out = Append(done.out, r.value)]
                      ELSE [done EXCEPT !.phase = "read_failed"]
    /\ ops' = ops + 1
    /\ UNCHANGED <<debug_build, buffer, cursor, fields, msg>>

NextSeq == SeqWrite \/ SeqTurn \/ SeqRead

SpecSeq == InitSeq /\ [][NextSeq]_vars

\* C7: fields written in sequence with write_u64 from position p, over any prior
\* contents, read back in the same order with the same widths from p as each
\* value modulo 2^width: no read fails, and no field disturbs another.
C7_WriteReadInverse ==
    /\ done.phase # "read_failed"
    /\ done.phase = "read" =>
          \A j \in 1..done.k : done.out[j] = Low(fields[j][1], fields[j][2])

\* 5 in 3 bits then a second field, written from bit 3 over 0xff bytes, both read back
C7_Witness ==
    /\ done.phase = "read" /\ done.k = 2 /\ done.start = 3
    /\ fields = <<(<<Word(5), 3>>), (<<AllOnes, 1>>)>>
    /\ done.out = <<Word(5), {0}>>
    /\ last.buffer0[1] = {0, 1, 2, 3, 5, 6, 7}

----------------------------------------------------------------------------
(* SpecMsg: a value of a derived type written with BitPackWriter::write and  *)
(* read back with BitPackReader::read, as write_and_read of the tests does    *)

\* the derived types of crates/ws_messages/src/macros.rs, and types like them
VecStruct == <<Field("count", u32, Simple, FALSE),
               Field("items", VecT(u32), Array("count"), FALSE)>>
PackedStruct == <<Field("value", u32, Packed(5), FALSE)>>
PackedSigned == <<Field("value", i8, Packed(5), FALSE)>>
PackedVecStruct == <<Field("count", u32, Simple, FALSE),
                     Field("items", VecT(u32), PackedArray(5, "count"), FALSE)>>
UnionVariants == << <<Field("value", u64, Simple, FALSE)>>,
                    <<Field("value", i16, Simple, FALSE)>> >>
UnionStruct == <<Field("id", u32, Simple, FALSE),
                 Field("union", UnionT(UnionVariants), Union("id"), FALSE)>>
Message02EE == <<Field("account_id", u32, Simple, FALSE),
                 Field("session_guid", ArrayT(u8, 16), Simple, TRUE),
                 Field("account_name", StringT, Simple, FALSE)>>
Message0002 == <<Field("build_number", u32, Simple, FALSE),
                 Field("realm_id", u32, Simple, FALSE),
                 Field("realm_group_id", u32, Simple, FALSE),
                 Field("realm_group_enum", u32, Simple, FALSE),
                 Field("startup_time", u64, Simple, FALSE),
                 Field("listen_port", u16, Simple, FALSE),
                 Field("connection_type", u8, Packed(5), FALSE),
                 Field("network_message_crc", u32, Simple, FALSE),
                 Field("process_id", u32, Simple, FALSE),
                 Field("process_creation_time", u64, Simple, FALSE)>>
AlignedStruct == <<Field("flag", BoolT, Simple, FALSE),
                   Field("value", u8, Simple, TRUE)>>
StringStruct == <<Field("name", StringT, Simple, FALSE)>>

MsgTypes == [VecStruct |-> VecStruct, PackedStruct |-> PackedStruct,
             PackedSigned |-> PackedSigned, PackedVecStruct |-> PackedVecStruct,
             UnionStruct |-> UnionStruct, Message0002 |-> Message0002,
             Message02EE |-> Message02EE,
             AlignedStruct |-> AlignedStruct, StringStruct |-> StringStruct]

\* "", "c", "cl", "e-acute", "euro sign", "grinning face"
Strings == {<<>>, <<99>>, <<99, 108>>, <<233>>, <<8364>>, <<128512>>}

U32Items == {<<>>, <<Word(1)>>, <<Word(1), Word(2)>>, <<Word(31), {0, 31}>>}

Guid == [k \in 1..16 |-> Word(k * 15)]

\* the message of test_simple_bits (network_message_crc: 2629306514)
SimpleMessage ==
    [build_number |-> Word(6152), realm_id |-> Word(0), realm_group_id |-> Word(17),
     realm_group_enum |-> Word(0), startup_time |-> Word(0), listen_port |-> Word(0),
     connection_type |-> Word(9),
     network_message_crc |-> {1, 4, 7, 11, 19, 20, 21, 23, 26, 27, 28, 31},
     process_id |-> Word(0), process_creation_time |-> Word(0)]

\* a message of type Message0002 with the value w, cut to its width, in every field
UniformMessage(w) ==
    [k \in {Message0002[j].name : j \in 1..Len(Message0002)} |->
        Low(w, FieldNamed(Message0002, k).ty.bits)]

MsgValues(ty) ==
    CASE ty = "VecStruct" ->
            {[count |-> Word(n), items |-> q] : n \in 0..2, q \in U32Items}
      [] ty = "PackedStruct" -> {[value |-> w] : w \in {Word(5), Word(31), Word(32)}}
      [] ty = "PackedSigned" -> {[value |-> w] : w \in {Word(5), Word(17), Neg(3, 8)}}
      [] ty = "PackedVecStruct" ->
            {[count |-> Word(n), items |-> q] : n \in 0..2, q \in U32Items}
      [] ty = "UnionStruct" ->
            {[id |-> Word(n), union |-> u] : n \in 0..2,
                u \in {[variant |-> 0, fields |-> [value |-> {0, 63}]],
                       [variant |-> 1, fields |-> [value |-> Neg(12349, 16)]],
                       [variant |-> 1, fields |-> [value |-> {}]]}}
      [] ty = "Message0002" ->
            {SimpleMessage, UniformMessage(Word(0)), UniformMessage(AllOnes)}
      [] ty = "Message02EE" ->
            {[account_id |-> Word(13761), session_guid |-> Guid, account_name |-> n] :
                n \in Strings}
      [] ty = "AlignedStruct" ->
            {[flag |-> b, value |-> w] : b \in BOOLEAN, w \in {Word(0), Word(129)}}
      [] ty = "StringStruct" -> {[name |-> n] : n \in Strings}

\* v is constructible under the plan fds: every length field holds the length
\* of its Vec, every packed integer fits its width, every discriminant is the
\* index of its union's variant
WellFormed(fds, v) ==
    \A k \in 1..Len(fds) :
        LET f == fds[k]
            x == v[f.name]
        IN  /\ f.meta.kind \in {"Array", "PackedArray"} =>
                  Len(x) = as_usize(v[f.meta.length], FieldNamed(fds, f.meta.length).ty)
            /\ f.meta.kind = "Packed" => as_u64(x, f.ty) \subseteq 0..(f.meta.bits - 1)
            /\ f.meta.kind = "PackedArray" =>
                  \A j \in 1..Len(x) : as_u64(x[j], f.ty.elem) \subseteq 0..(f.meta.bits - 1)
            /\ f.meta.kind = "Union" =>
                  variant(x) = as_usize(v[f.meta.variant], FieldNamed(fds, f.meta.variant).ty)

InitMsg ==
    /\ debug_build \in BOOLEAN
    /\ buffer \in {Fill(MsgBufLen, Word(0)), Fill(MsgBufLen, Word(255))}
    /\ cursor = "writer"
    /\ position \in {0, 3}
    /\ last = NoCall
    /\ ops = 0
    /\ fields = NoFields
    /\ done = NoDone
    /\ \E ty \in DOMAIN MsgTypes : \E v \in MsgValues(ty) :
          msg = [NoMsg EXCEPT !.pc = "start", !.ty = ty, !.input = v, !.start = position]

MsgFrame == UNCHANGED <<debug_build, ops, fields, done>>

\* value.bits()
MsgBits ==
    /\ msg.pc = "start"
    /\ LET b == fields_bits(msg.input, MsgTypes[msg.ty], debug_build)
       IN  /\ msg' = [msg EXCEPT !.pc = IF Ok(b) THEN "sized" ELSE "failed", !.bits = b]
           /\ last' = Call("bits", 0, {}, b.status)
    /\ UNCHANGED <<buffer, cursor, position>> /\ MsgFrame

\* writer.write(&value)
MsgWrite ==
    /\ msg.pc = "sized"
    /\ LET r == fields_write(buffer, position, msg.input, MsgTypes[msg.ty], debug_build)
       IN  /\ buffer' = r.buffer
           /\ position' = r.position
           /\ last' = Call("write", 0, {}, r.status)
           /\ msg' = [msg EXCEPT !.pc = IF Ok(r) THEN "written" ELSE "failed",
                                 !.status = r.status,
                                 !.written = r.position - msg.start]
    /\ UNCHANGED cursor /\ MsgFrame

\* writer.align()
MsgAlign ==
    /\ msg.pc = "written"
    /\ LET r == writer_align(buffer, position)
       IN  /\ buffer' = r.buffer
           /\ position' = r.position
           /\ last' = Call("align", 0, {}, r.status)
           /\ msg' = [msg EXCEPT !.pc = IF Ok(r) THEN "aligned" ELSE "failed",
                                 !.status = r.status]
    /\ UNCHANGED cursor /\ MsgFrame

\* the writer is dropped; BitPackReader::with_position(&buf, start)
MsgReader ==
    /\ msg.pc = "aligned"
    /\ cursor' = "reader"
    /\ position' = msg.start
    /\ last' = Call("with_position", msg.start, {}, "Ok")
    /\ msg' = [msg EXCEPT !.pc = "reading"]
    /\ UNCHANGED buffer /\ MsgFrame

\* reader.read::<T>()
MsgRead ==
    /\ msg.pc = "reading"
    /\ LET r == fields_read(buffer, position, MsgTypes[msg.ty], debug_build)
       IN  /\ position' = r.position
           /\ last' = Call("read", 0, {}, r.status)
           /\ msg' = [msg EXCEPT !.pc = "read", !.status = r.status, !.output = r.value]
    /\ UNCHANGED <<buffer, cursor>> /\ MsgFrame

NextMsg == MsgBits \/ MsgWrite \/ MsgAlign \/ MsgReader \/ MsgRead

SpecMsg == InitMsg /\ [][NextMsg]_vars

\* C1: a value of a derived type, written and then read from the same start
\* position, reads back Ok and equal to the value written.
C1_RoundTrip ==
    (msg.pc = "read" /\ WellFormed(MsgTypes[msg.ty], msg.input)) =>
        (msg.status = "Ok" /\ msg.output = msg.input)

\* C2: v.bits() equals the position after a successful write(v) minus the
\* position before it.
C2_BitsExact ==
    msg.pc = "written" => msg.bits.value = msg.written

\* C3: reading a union whose discriminant is not the index of a variant returns
\* an invalid-variant error.
C3_InvalidVariantIsError ==
    (/\ msg.pc = "read" /\ msg.ty = "UnionStruct"
     /\ as_usize(msg.input.id, u32) >= Len(UnionVariants)) =>
        msg.status = "InvalidUnionVariant"

\* C12: a write of a record whose Vec field holds a number of elements other
\* than the value of its length field does not return Ok.
C12_LengthMismatchSurfaced ==
    msg.pc = "written" =>
        \A k \in 1..Len(MsgTypes[msg.ty]) :
            LET f == MsgTypes[msg.ty][k]
            IN  f.meta.kind \in {"Array", "PackedArray"} =>
                    Len(msg.input[f.name]) =
                        as_usize(msg.input[f.meta.length],
                                 FieldNamed(MsgTypes[msg.ty], f.meta.length).ty)

\* C13: a written string is one extended bit, 1 exactly when the string has more
\* than 127 UTF-16 code units, then its number of UTF-16 code units in 15 bits
\* if extended else 7, then that many 16-bit code units.
C13_StringFraming ==
    (msg.pc = "written" /\ msg.ty = "StringStruct") =>
        LET units == encode_utf16(msg.input.name)
            extended == Len(units) > 127
            length_bits == IF extended THEN 15 ELSE 7
            p == msg.start
        IN  /\ StreamBit(buffer, p) = extended
            /\ Window(buffer, p + 1, length_bits) = Word(Len(units))
            /\ \A k \in 1..Len(units) :
                  Window(buffer, p + 1 + length_bits + 16 * (k - 1), 16) = Word(units[k])
            /\ msg.written = 1 + length_bits + 16 * Len(units)

\* C15: read_union with index i < k decodes the fields of the i-th declared
\* variant and returns that variant; a union value written and read back under
\* the index of its own variant is returned unchanged (index 0: a u64, index 1:
\* an i16, -12349 included).
C15_UnionDispatch ==
    (/\ msg.pc = "read" /\ msg.ty = "UnionStruct"
     /\ as_usize(msg.input.id, u32) < Len(UnionVariants)) =>
        LET i == as_usize(msg.input.id, u32)
            width == UnionVariants[i + 1][1].ty.bits
        IN  /\ msg.status = "Ok"
            /\ msg.output.id = msg.input.id
            /\ variant(msg.output.union) = i
            /\ DOMAIN msg.output.union.fields = {"value"}
            /\ msg.output.union.fields.value = Window(buffer, msg.start + 32, width)
            /\ position = msg.start + 32 + width
            /\ variant(msg.input.union) = i => msg.output.union = msg.input.union

\* Signed16 { value: -12349 } under id = 1, written and read back
C15_Witness ==
    /\ msg.pc = "read" /\ msg.ty = "UnionStruct" /\ msg.input.id = Word(1)
    /\ msg.input.union = [variant |-> 1, fields |-> [value |-> Neg(12349, 16)]]
    /\ msg.output = msg.input

\* a record of Simple and Packed integer fields only, none of them aligned
PlainRecord(fds) ==
    \A k \in 1..Len(fds) :
        fds[k].ty.kind = "int" /\ fds[k].meta.kind \in {"Simple", "Packed"} /\ ~fds[k].aligned

\* the native width of every Simple field plus the declared width of every Packed one
RECURSIVE StructuralBits(_)
StructuralBits(fds) ==
    IF fds = <<>> THEN 0
    ELSE (IF Head(fds).meta.kind = "Packed" THEN Head(fds).meta.bits ELSE Head(fds).ty.bits)
         + StructuralBits(Tail(fds))

\* C16: bits() of a record of unaligned Simple and Packed integers is the sum
\* of the fields' widths whatever their values (341 for Message0002), and is
\* the number of bits its write consumes.
C16_StructuralBits ==
    (PlainRecord(MsgTypes[msg.ty]) /\ msg.pc # "start") =>
        /\ msg.bits = [status |-> "Ok", value |-> StructuralBits(MsgTypes[msg.ty])]
        /\ msg.ty = "Message0002" => msg.bits.value = 341
        /\ msg.pc \in {"written", "aligned", "reading", "read"} =>
              msg.written = msg.bits.value

\* the message of test_simple_bits sized and written from bit 3
C16_Witness ==
    /\ msg.pc = "written" /\ msg.ty = "Message0002" /\ msg.input = SimpleMessage
    /\ msg.start = 3 /\ msg.bits.value = 341 /\ position = 344

\* C17: read_packed::<T>(bits) is the unsigned value of the bits read, cast to
\* T with no sign extension from the packed width: 5 packed bits read into an
\* i8 give a value in 0..=31, and a negative i8 written in 5 bits does not read
\* back as itself.
C17_PackedNoSignExtension ==
    (msg.pc = "read" /\ msg.ty \in {"PackedSigned", "PackedStruct"}) =>
        /\ msg.status = "Ok"
        /\ msg.output.value = Window(buffer, msg.start, 5)
        /\ msg.output.value = Low(msg.input.value, 5)
        /\ msg.output.value \subseteq 0..4
        /\ (msg.ty = "PackedSigned" /\ 7 \in msg.input.value) =>
              msg.output.value # msg.input.value

\* -3 written as an i8 packed in 5 bits reads back as 29
C17_Witness ==
    /\ msg.pc = "read" /\ msg.ty = "PackedSigned" /\ msg.input.value = Neg(3, 8)
    /\ msg.output.value = Word(29)

\* the number of bits the value x of field f takes on the wire (the strings of
\* MsgValues are short: 1 + 7 bits of header)
WireBits(f, x) ==
    CASE f.ty.kind = "int" -> IF f.meta.kind = "Packed" THEN f.meta.bits ELSE f.ty.bits
      [] f.ty.kind = "bool" -> 1
      [] f.ty.kind = "String" -> 8 + 16 * Len(encode_utf16(x))
      [] f.ty.kind = "Vec" ->
            Len(x) * (IF f.meta.kind = "PackedArray" THEN f.meta.bits ELSE f.ty.elem.bits)
      [] f.ty.kind = "array" -> f.ty.len * f.ty.elem.bits
      [] f.ty.kind = "union" -> StructuralBits(f.ty.variants[variant(x) + 1])

\* where the k-th field of the record v starts and ends when the record
\* starts at bit `start`: after the end of the field before it, moved to the
\* next byte boundary when the field is aligned
RECURSIVE FieldEnd(_, _, _, _)
FieldStart(fds, v, k, start) ==
    IF fds[k].aligned THEN 8 * ((FieldEnd(fds, v, k - 1, start) + 7) \div 8)
    ELSE FieldEnd(fds, v, k - 1, start)
FieldEnd(fds, v, k, start) ==
    IF k = 0 THEN start
    ELSE FieldStart(fds, v, k, start) + WireBits(fds[k], v[fds[k].name])

\* the bits at `at` are the integer x of type ty in w bits
IntAt(buf, at, x, ty, w) == Window(buf, at, w) = Low(as_u64(x, ty), w)

\* the buffer holds the value x of field f from bit `at` on
FieldAt(buf, at, f, x) ==
    CASE f.ty.kind = "int" -> IntAt(buf, at, x, f.ty, WireBits(f, x))
      [] f.ty.kind = "bool" -> StreamBit(buf, at) = x
      [] f.ty.kind \in {"Vec", "array"} ->
            LET w == IF f.meta.kind = "PackedArray" THEN f.meta.bits ELSE f.ty.elem.bits
            IN  \A j \in 1..Len(x) : IntAt(buf, at + (j - 1) * w, x[j], f.ty.elem, w)
      [] f.ty.kind = "String" ->
            LET units == encode_utf16(x)
            IN  \A j \in 1..Len(units) :
                    Window(buf, at + 8 + 16 * (j - 1), 16) = Word(units[j])
      [] f.ty.kind = "union" ->
            LET g == f.ty.variants[variant(x) + 1][1]
            IN  IntAt(buf, at, x.fields[g.name], g.ty, g.ty.bits)

\* C19: a record is written and read field by field in declaration order, each
\* field starting where the one before ended, moved to the next byte boundary
\* first when it is aligned; the elements of an array field follow one another
\* from there and no length is written.
C19_FieldOrder ==
    LET fds == MsgTypes[msg.ty] IN
    /\ msg.pc \in {"written", "aligned", "reading", "read"} =>
          /\ \A k \in 1..Len(fds) :
                FieldAt(buffer, FieldStart(fds, msg.input, k, msg.start), fds[k],
                        msg.input[fds[k].name])
          /\ msg.start + msg.written = FieldEnd(fds, msg.input, Len(fds), msg.start)
    /\ (msg.pc = "read" /\ msg.status = "Ok") =>
          /\ \A k \in 1..Len(fds) :
                FieldAt(buffer, FieldStart(fds, msg.output, k, msg.start), fds[k],
                        msg.output[fds[k].name])
          /\ position = FieldEnd(fds, msg.output, Len(fds), msg.start)

\* Message02EE written from bit 3: account_id in bits 3..34, the guid from the
\* byte boundary at bit 40, the name from bit 168
C19_Witness ==
    /\ msg.pc = "read" /\ msg.ty = "Message02EE" /\ msg.start = 3
    /\ msg.input.account_name = <<99, 108>> /\ msg.output = msg.input
    /\ FieldStart(Message02EE, msg.input, 2, 3) = 40
    /\ FieldStart(Message02EE, msg.input, 3, 3) = 168
    /\ position = 208

----------------------------------------------------------------------------
(* SpecErr: one record written into, or read from, a buffer that may be too  *)
(* short for it or may hold a string that is not valid UTF-16                *)

NameThenByte == <<Field("name", StringT, Simple, FALSE),
                  Field("value", u8, Simple, FALSE)>>

ErrTypes == [VecStruct |-> VecStruct, UnionStruct |-> UnionStruct,
             AlignedStruct |-> AlignedStruct, NameThenByte |-> NameThenByte,
             Message02EE |-> Message02EE, StringStruct |-> StringStruct]

\* the char c, n times
Repeat(c, n) == [k \in 1..n |-> c]

\* "c"; 10923 euro signs (32769 bytes of UTF-8, 10923 UTF-16 units); 32768 times
\* "c" (32768 bytes, 32768 units)
LongStrings == {<<99>>, Repeat(8364, 10923), Repeat(99, 32768)}

ErrValues(ty) ==
    IF ty = "NameThenByte"
    THEN {[name |-> n, value |-> Word(129)] : n \in {<<>>, <<99>>}}
    ELSE IF ty = "StringStruct" THEN {[name |-> n] : n \in LongStrings}
    ELSE {v \in MsgValues(ty) : WellFormed(ErrTypes[ty], v)}

\* buffers of 0 to MaxErrLen bytes, and framed strings followed by one byte
MaxErrLen == 6
ErrBuffers == {Fill(n, f) : n \in 0..MaxErrLen, f \in {Word(0), Word(255)}}
                  \cup {LoneSurrogate \o <<Word(127)>>, SurrogatePair \o <<Word(127)>>}

InitErr ==
    /\ debug_build \in BOOLEAN
    /\ buffer \in ErrBuffers
    /\ cursor \in {"reader", "writer"}
    /\ position \in {0, 3}
    /\ position <= 8 * Len(buffer)
    /\ last = NoCall
    /\ ops = 0
    /\ fields = NoFields
    /\ done = NoDone
    /\ \E ty \in DOMAIN ErrTypes :
          \E v \in IF cursor = "writer" THEN ErrValues(ty) ELSE {<<>>} :
              \* the long strings are written from bit 0 of the longest buffer only
              /\ (ty = "StringStruct" /\ cursor = "writer" /\ Len(v.name) > 1) =>
                     (buffer = Fill(MaxErrLen, Word(0)) /\ position = 0)
              /\ msg = [NoMsg EXCEPT !.pc = "start", !.ty = ty, !.input = v,
                                     !.start = position]

\* writer.write(&value)
ErrWrite ==
    /\ cursor = "writer" /\ msg.pc = "start"
    /\ LET r == fields_write(buffer, position, msg.input, ErrTypes[msg.ty], debug_build)
       IN  /\ buffer' = r.buffer
           /\ position' = r.position
           /\ last' = Call("write", 0, {}, r.status)
           /\ msg' = [msg EXCEPT !.pc = "done", !.status = r.status,
                                 !.written = r.position - msg.start]
    /\ UNCHANGED cursor /\ MsgFrame

\* reader.read::<T>()
ErrRead ==
    /\ cursor = "reader" /\ msg.pc = "start"
    /\ LET r == fields_read(buffer, position, ErrTypes[msg.ty], debug_build)
       IN  /\ position' = r.position
           /\ last' = Call("read", 0, {}, r.status)
           /\ msg' = [msg EXCEPT !.pc = "done", !.status = r.status, !.output = r.value]
    /\ UNCHANGED <<buffer, cursor>> /\ MsgFrame

NextErr == ErrWrite \/ ErrRead

SpecErr == InitErr /\ [][NextErr]_vars

\* the outcome of the first field that does not return Ok, the fields taken
\* one at a time in declaration order; the outcome of the last field if all do
RECURSIVE FirstFailedRead(_, _, _, _, _)
FirstFailedRead(buf, dbg, fds, k, s) ==
    IF k > Len(fds) THEN s
    ELSE Bind(get_field_read(buf, dbg, fds, fds[k], s), LAMBDA r :
             IF Ok(r) THEN FirstFailedRead(buf, dbg, fds, k + 1, r) ELSE r)

RECURSIVE FirstFailedWrite(_, _, _, _, _)
FirstFailedWrite(dbg, fds, v, k, s) ==
    IF k > Len(fds) THEN s
    ELSE Bind(get_field_write(dbg, fds[k], v[fds[k].name], s), LAMBDA r :
             IF Ok(r) THEN FirstFailedWrite(dbg, fds, v, k + 1, r) ELSE r)

Errors == {"OutOfBounds", "FromUtf16"}

\* C20: when a field of a record fails, the record's read (write) returns that
\* field's error and stops there: no record value is returned and nothing is
\* read (written) after the point of failure; a record value is returned only
\* with every field in it.
C20_NoPartialSuccess ==
    msg.pc = "done" =>
        LET fds == ErrTypes[msg.ty]
            buf == last.buffer0
            fr == FirstFailedRead(buf, debug_build, fds, 1,
                      [status |-> "Ok", value |-> <<>>, position |-> msg.start])
            fw == FirstFailedWrite(debug_build, fds, msg.input, 1,
                      [status |-> "Ok", buffer |-> buf, position |-> msg.start])
        IN  /\ cursor = "reader" =>
                  /\ msg.status = fr.status /\ position = fr.position
                  /\ msg.status \in Errors => msg.output = <<>>
                  /\ msg.status = "Ok" =>
                        DOMAIN msg.output = {fds[k].name : k \in 1..Len(fds)}
                  /\ msg.status = "OutOfBounds" => position = 8 * Len(buffer)
                  /\ msg.status = "FromUtf16" =>
                        position = msg.start + 8 + 16 * ToNat(Window(buf, msg.start + 1, 7))
            /\ cursor = "writer" =>
                  /\ msg.status = fw.status /\ position = fw.position
                  /\ buffer = fw.buffer
                  /\ msg.status = "OutOfBounds" => position = 8 * Len(buffer)

\* a name that is an unpaired surrogate: the read returns FromUtf16 and stands
\* at bit 24, before the byte of the next field
C20_Witness ==
    /\ msg.pc = "done" /\ cursor = "reader" /\ msg.ty = "NameThenByte"
    /\ buffer = LoneSurrogate \o <<Word(127)>> /\ msg.start = 0
    /\ msg.status = "FromUtf16" /\ position = 24 /\ msg.output = <<>>

----------------------------------------------------------------------------
(* Alignment padding of bits(), checked under SpecMsg *)

\* the bits that bits() adds for the aligned modifier of field k of fds
BitsPadding(fds, v, k, dbg) ==
    LET f == fds[k]
        b0 == fields_bits_from(dbg, SubSeq(fds, 1, k - 1), v, 1,
                               [status |-> "Ok", value |-> 0])
    IN  get_field_bits(dbg, f, v[f.name], b0).value
            - get_field_bits(dbg, [f EXCEPT !.aligned = FALSE], v[f.name], b0).value

\* the position of the writer at field k of fds, and the bits align() emits there
WriterAt(fds, v, k, buf, start, dbg) ==
    fields_write_from(dbg, SubSeq(fds, 1, k - 1), v, 1,
                      [status |-> "Ok", buffer |-> buf, position |-> start])

WritePadding(fds, v, k, buf, start, dbg) ==
    LET w0 == WriterAt(fds, v, k, buf, start, dbg)
    IN  writer_align(w0.buffer, w0.position).position - w0.position

\* C21: for an aligned field, bits() adds exactly the padding bits align() emits
\* before that field when the record is written: 0 at a multiple of 8 and
\* 8 - (position % 8) otherwise, position being the writer's absolute position.
C21_AlignPaddingBits ==
    msg.pc = "written" =>
        LET fds == MsgTypes[msg.ty]
        IN  \A k \in 1..Len(fds) :
                fds[k].aligned =>
                    LET at == WriterAt(fds, msg.input, k, last.buffer0, msg.start,
                                       debug_build).position
                        pad == BitsPadding(fds, msg.input, k, debug_build)
                    IN  /\ pad = WritePadding(fds, msg.input, k, last.buffer0, msg.start,
                                              debug_build)
                        /\ pad = IF at % 8 = 0 THEN 0 ELSE 8 - (at % 8)

----------------------------------------------------------------------------
(* Packed writes of the derived records, checked under SpecMsg *)

\* `value < 2^bits` for the value x of the integer type ty taken as unsigned
FitsPacked(x, ty, bits) == as_u64(x, ty) \subseteq 0..(bits - 1)

\* C22: the write of a packed integer field is accepted exactly when the value
\* fits the packed width: a value of 2^bits or more is rejected and never
\* written cut to the width.
C22_PackedMustFit ==
    (last.op = "write" /\ msg.pc \in {"written", "failed"}) =>
        LET fds == MsgTypes[msg.ty]
        IN  \A k \in 1..Len(fds) :
                fds[k].meta.kind = "Packed" =>
                    (msg.status = "Ok"
                        <=> FitsPacked(msg.input[fds[k].name], fds[k].ty, fds[k].meta.bits))

----------------------------------------------------------------------------
(* The padding skipped by the reader's align(), checked under Spec *)

\* buf with the stream bits lo..hi-1 replaced: cleared, set, or inverted
WithBits(buf, lo, hi, how) ==
    [i \in 1..Len(buf) |->
        LET here == {k % 8 : k \in {j \in lo..(hi - 1) : j \div 8 = i - 1}}
        IN  CASE how = "zeros" -> buf[i] \ here
              [] how = "ones" -> buf[i] \cup here
              [] how = "inverted" -> (buf[i] \ here) \cup (here \ buf[i])]

PaddingVariants(buf, lo, hi) ==
    {WithBits(buf, lo, hi, how) : how \in {"zeros", "ones", "inverted"}}

\* C23: over a buffer that differs only in the bits align() skips, the reads
\* before the align, the align and the reads after it return the same results
\* and positions; a one among the skipped bits does not make align() fail.
C23_AlignIgnoresPadding ==
    (cursor = "reader" /\ last.op = "align") =>
        \A alt \in PaddingVariants(buffer, last.position0, position) :
            /\ reader_align(alt, last.position0)
                   = [status |-> last.status, position |-> position]
            /\ \A m \in {1, last.position0 % 8} :
                   m <= last.position0 =>
                       read_u64(alt, last.position0 - m, m, debug_build)
                           = read_u64(buffer, last.position0 - m, m, debug_build)
            /\ \A n \in {1, 8, 11} :
                   read_u64(alt, position, n, debug_build)
                       = read_u64(buffer, position, n, debug_build)
            /\ String_read(alt, position, debug_build)
                   = String_read(buffer, position, debug_build)

\* align() from bit 5 of a byte whose bits 5, 6 and 7 are ones
C23_Witness ==
    /\ cursor = "reader" /\ last.op = "align" /\ last.status = "Ok"
    /\ last.position0 = 5 /\ position = 8
    /\ Len(buffer) >= 1 /\ {5, 6, 7} \subseteq buffer[1]

----------------------------------------------------------------------------
(* The length assertion of the string write, checked under SpecErr *)

\* C24: the write of a string of fewer than 2^15 UTF-16 code units passes the
\* length assertion and, when it succeeds, holds the number of units in the
\* length field; the write of a string of 2^15 units or more trips the assertion.
C24_StringLengthBound ==
    (msg.pc = "done" /\ cursor = "writer" /\ msg.ty = "StringStruct") =>
        LET units == utf16_count(msg.input.name)
        IN  /\ units < 32768 =>
                /\ msg.status # "Panic"
                /\ msg.status = "Ok" =>
                       Window(buffer, msg.start + 1, 7) = Word(units)
            /\ units >= 32768 => msg.status = "Panic"

----------------------------------------------------------------------------
(* MessageValue: crates/ws_messages/src/values.rs *)

\* Option<usize>
NoneOpt == [some |-> FALSE, value |-> 0]
Some(n) == [some |-> TRUE, value |-> n]
unwrap_or(opt, default) == IF opt.some THEN opt.value ELSE default

\* MessageFieldMetadata (the ascii flag is read by no code)
MessageFieldMetadata(bits, length) == [bits |-> bits, length |-> length]

\* `*self as u128`: sign extension for a signed type, zero extension otherwise
as_u128(v, ty) == IF ty.signed /\ (ty.bits - 1) \in v THEN v \cup (ty.bits..127) ELSE v

\* MessageValue::unpack for the integers and for bool
MessageValue_unpack(buf, pos, ty, metadata, dbg) ==
    IF ty.kind = "bool"
    THEN Bind(read_bit(buf, pos), LAMBDA r :
             [status |-> r.status, position |-> r.position,
              value |-> IF r.bit THEN One ELSE {}])
    ELSE Bind(read_u64(buf, pos, unwrap_or(metadata.bits, ty.bits), dbg), LAMBDA r :
             [r EXCEPT !.value = as_int(r.value, ty)])

\* MessageValue::pack for the integers: debug_assert!((*self as u128) < (1u128 << bits))
\* and write_u64(*self as u64, bits).  `1u128 << bits` overflows from 128 bits on.
MessageValue_pack(buf, pos, v, ty, metadata, dbg) ==
    LET bits == unwrap_or(metadata.bits, ty.bits)
    IN  IF dbg /\ (bits >= 128 \/ ~(as_u128(v, ty) \subseteq 0..(bits - 1)))
        THEN [status |-> "Panic", buffer |-> buf, position |-> pos]
        ELSE write_u64(buf, pos, as_u64(v, ty), bits, dbg)

----------------------------------------------------------------------------
(* SpecPack: one call of MessageValue::unpack for Vec<T>, one iteration of  *)
(* its loop at a time, or one call of MessageValue::pack for an integer      *)

PackTypes == [u8 |-> u8, i8 |-> i8, u16 |-> u16, bool |-> BoolT]

MaxPackLen == 4
PackBuffers == {Fill(n, f) : n \in 0..MaxPackLen, f \in {Word(0), Word(165)}}

PackMetadata == {MessageFieldMetadata(b, l) :
                    b \in {NoneOpt, Some(0), Some(5)},
                    l \in {NoneOpt, Some(0), Some(1), Some(2)}}

PackValues == {Word(5), Word(32), Neg(3, 8)}

\* the reader stands in Vec::unpack after `let value = Self::with_capacity(length)`;
\* the writer stands before the call of pack
InitPack ==
    /\ debug_build \in BOOLEAN
    /\ buffer \in PackBuffers
    /\ cursor \in {"reader", "writer"}
    /\ position \in {0, 3}
    /\ position <= 8 * Len(buffer)
    /\ last = NoCall
    /\ ops = 0
    /\ fields = NoFields
    /\ done = NoDone
    /\ \E ty \in DOMAIN PackTypes, metadata \in PackMetadata :
          IF cursor = "reader"
          THEN msg = [NoMsg EXCEPT !.pc = "loop", !.ty = ty, !.input = metadata,
                                   !.start = position]
          ELSE /\ ty \in {"u8", "i8"}
               /\ metadata.length = NoneOpt
               /\ \E v \in PackValues :
                     msg = [NoMsg EXCEPT !.pc = "start", !.ty = ty, !.start = position,
                                !.input = [value |-> v, metadata |-> metadata]]

\* `while value.len() < length { T::unpack(reader, &MessageFieldMetadata { length:
\* None, ..*metadata })?; }`: the element is read and dropped, value is not `mut`
UnpackVecIter ==
    /\ cursor = "reader" /\ msg.pc = "loop"
    /\ Len(msg.output) < unwrap_or(msg.input.length, 0)
    /\ LET r == MessageValue_unpack(buffer, position, PackTypes[msg.ty],
                                    [msg.input EXCEPT !.length = NoneOpt], debug_build)
       IN  /\ position' = r.position
           /\ last' = Call("unpack", Len(msg.output), {}, r.status)
           /\ msg' = IF Ok(r) THEN msg
                     ELSE [msg EXCEPT !.pc = "done", !.status = r.status, !.output = <<>>]
    /\ UNCHANGED <<buffer, cursor>> /\ MsgFrame

\* the loop condition is false: Ok(value)
UnpackVecReturn ==
    /\ cursor = "reader" /\ msg.pc = "loop"
    /\ ~(Len(msg.output) < unwrap_or(msg.input.length, 0))
    /\ last' = Call("unpack_vec", 0, {}, "Ok")
    /\ msg' = [msg EXCEPT !.pc = "done", !.status = "Ok"]
    /\ UNCHANGED <<buffer, cursor, position>> /\ MsgFrame

\* value.pack(writer, &metadata) for an integer
PackInt ==
    /\ cursor = "writer" /\ msg.pc = "start"
    /\ LET r == MessageValue_pack(buffer, position, Low(msg.input.value, PackTypes[msg.ty].bits),
                                  PackTypes[msg.ty], msg.input.metadata, debug_build)
       IN  /\ buffer' = r.buffer
           /\ position' = r.position
           /\ last' = Call("pack", 0, {}, r.status)
           /\ msg' = [msg EXCEPT !.pc = "done", !.status = r.status,
                                 !.written = r.position - msg.start]
    /\ UNCHANGED cursor /\ MsgFrame

NextPack == UnpackVecIter \/ UnpackVecReturn \/ PackInt

SpecPack == InitPack /\ [][NextPack]_vars

\* the bits one element of the Vec takes under the metadata
ElementBits(ty, metadata) ==
    IF ty.kind = "bool" THEN 1 ELSE unwrap_or(metadata.bits, ty.bits)

\* C25: Vec::unpack with metadata.length = n, over a buffer that holds n element
\* encodings from the start position, returns Ok with a Vec of exactly n
\* elements and stands n element encodings further; with no length or length 0
\* it returns an empty Vec and the position it started from.
C25_VecUnpack ==
    (cursor = "reader" /\ msg.pc = "done") =>
        LET n == unwrap_or(msg.input.length, 0)
            w == ElementBits(PackTypes[msg.ty], msg.input)
        IN  Remaining(buffer, msg.start) >= n * w =>
                /\ msg.status = "Ok"
                /\ Len(msg.output) = n
                /\ position = msg.start + n * w

----------------------------------------------------------------------------
(* Frame of the writes, checked under Spec *)

\* the stream bits of buf, as the set of the positions that hold a one
StreamBits(buf) == {k \in 0..(8 * Len(buf) - 1) : StreamBit(buf, k)}

\* C26: a successful write_bit(b) at position p makes bit p of the stream equal
\* to b whatever it held, leaves every other bit of the buffer as it was and
\* advances the position by 1; write_u64(v, n) changes no bit outside [p, p + n).
C26_WriteBitFrame ==
    cursor = "writer" =>
        /\ (last.op = "write_bit" /\ last.status = "Ok") =>
              /\ position = last.position0 + 1
              /\ Len(buffer) = Len(last.buffer0)
              /\ StreamBits(buffer) =
                     (StreamBits(last.buffer0) \ {last.position0})
                         \cup (IF last.bit THEN {last.position0} ELSE {})
        /\ last.op = "write_u64" =>
              /\ Len(buffer) = Len(last.buffer0)
              /\ \A k \in 0..(8 * Len(buffer) - 1) :
                     (k < last.position0 \/ k >= last.position0 + last.n) =>
                         (StreamBit(buffer, k) <=> StreamBit(last.buffer0, k))

\* write_bit(false) on bit 5 of a byte of ones
C26_Witness ==
    /\ cursor = "writer" /\ last.op = "write_bit" /\ last.status = "Ok" /\ ~last.bit
    /\ last.position0 = 5 /\ position = 6
    /\ last.buffer0[1] = Word(255) /\ buffer[1] = Word(255) \ {5}

----------------------------------------------------------------------------
(* Failed transfers, checked under Spec *)

\* the operation recorded in last moves at least one bit when it succeeds
TransfersBits ==
    \/ last.op \in {"read_bit", "write_bit", "read_string"}
    \/ last.op \in {"read_u64", "write_u64", "read_bytes", "write_bytes"} /\ last.n >= 1
    \/ last.op \in {"read_array", "read_packed_array"} /\ last.n >= 1 /\ last.width >= 1

\* C27: a read_bit or write_bit that returns OutOfBounds changes neither
\* position nor buffer; a read_u64, write_u64, read_bytes or write_bytes that
\* returns OutOfBounds from a position within the buffer keeps what it
\* transferred and stops at the end of the buffer; after a failed operation
\* every operation that transfers a bit returns OutOfBounds.
C27_StickyFailure ==
    /\ (last.op \in {"read_bit", "write_bit"} /\ last.status = "OutOfBounds") =>
          (position = last.position0 /\ buffer = last.buffer0)
    /\ (/\ last.op \in {"read_u64", "write_u64", "read_bytes", "write_bytes"}
        /\ last.status = "OutOfBounds"
        /\ last.position0 <= 8 * Len(last.buffer0)) =>
          /\ position = 8 * Len(buffer)
          /\ Len(buffer) = Len(last.buffer0)
          /\ last.op = "write_u64" =>
                \A i \in 0..(position - last.position0 - 1) :
                    StreamBit(buffer, last.position0 + i) <=> (i % 64) \in last.arg
          /\ last.op = "write_bytes" =>
                \A i \in 0..(position - last.position0 - 1) :
                    StreamBit(buffer, last.position0 + i)
                        <=> (i % 8) \in last.bytes[(i \div 8) + 1]
    /\ (/\ ~last.prev_ok
        /\ last.prev \in {"read_bit", "write_bit", "read_u64", "write_u64",
                          "read_bytes", "write_bytes"}
        /\ TransfersBits) =>
          /\ last.status = "OutOfBounds"
          /\ position = last.position0
          /\ buffer = last.buffer0

\* write_u64 of 8 ones from bit 5 of a 1-byte buffer: three bits are written
C27_Witness ==
    /\ cursor = "writer" /\ last.op = "write_u64" /\ last.status = "OutOfBounds"
    /\ last.n = 8 /\ last.arg = AllOnes
    /\ last.position0 = 5 /\ last.buffer0 = <<Word(0)>>
    /\ position = 8 /\ buffer = <<{5, 6, 7}>>

----------------------------------------------------------------------------
(* align() within the buffer, checked under Spec *)

\* C28: align() on a reader or writer whose position is at most 8 * len returns
\* Ok and ends at a position that is at most 8 * len; it returns OutOfBounds
\* only from an unaligned position past the end of the buffer, which only
\* with_position produces: no operation moves a cursor past the end.
C28_AlignInBounds ==
    /\ last.op = "align" =>
          /\ last.position0 <= 8 * Len(last.buffer0) =>
                /\ last.status = "Ok"
                /\ position <= 8 * Len(buffer)
                /\ Len(buffer) = Len(last.buffer0)
          /\ last.status # "Ok" =>
                /\ last.status = "OutOfBounds"
                /\ last.position0 > 8 * Len(last.buffer0)
                /\ last.position0 % 8 # 0
          /\ (last.status # "Ok" /\ last.prev \in {"new", "with_position"}) =>
                last.prev = "with_position"
    /\ (last.op \notin {"none", "new", "with_position"}
            /\ last.position0 <= 8 * Len(last.buffer0)) =>
          position <= 8 * Len(buffer)

\* align() of a writer from the last bit of a 2-byte buffer
C28_Witness ==
    /\ cursor = "writer" /\ last.op = "align" /\ last.status = "Ok"
    /\ Len(buffer) = 2 /\ last.position0 = 15 /\ position = 16

----------------------------------------------------------------------------
(* The write of a union field, checked under SpecMsg *)

\* discriminants: the index of each variant, an index with no variant, u32::MAX
Discriminants == {Word(0), Word(1), Word(2), Low(AllOnes, 32)}

\* C29: the write of a record with a union field succeeds whatever the sibling
\* discriminant holds; the bits written for the union are the fields of the
\* value's own variant, with no tag, directly after the discriminant; the same
\* record under another discriminant writes the same bits for the union.
C29_UnionWriteIgnoresDiscriminant ==
    (msg.ty = "UnionStruct" /\ last.op = "write") =>
        LET own == UnionVariants[variant(msg.input.union) + 1]
            width == own[1].ty.bits
        IN  /\ msg.status = "Ok"
            /\ Window(buffer, msg.start, 32) = msg.input.id
            /\ Window(buffer, msg.start + 32, width)
                   = as_u64(msg.input.union.fields.value, own[1].ty) \cap 0..(width - 1)
            /\ position = msg.start + 32 + width
            /\ \A id \in Discriminants :
                   LET other == fields_write(last.buffer0, msg.start,
                                             [msg.input EXCEPT !.id = id], UnionStruct,
                                             debug_build)
                   IN  /\ other.status = "Ok"
                       /\ other.position = position
                       /\ \A k \in (msg.start + 32)..(8 * Len(buffer) - 1) :
                              StreamBit(other.buffer, k) <=> StreamBit(buffer, k)

\* Signed16 { value: -12349 } written under id = 2, which names no variant
C29_Witness ==
    /\ msg.pc = "written" /\ msg.ty = "UnionStruct" /\ msg.status = "Ok"
    /\ msg.input.id = Word(2) /\ variant(msg.input.union) = 1
    /\ msg.input.union.fields.value = Neg(12349, 16)
    /\ msg.start = 3 /\ position = 51
    /\ Window(buffer, 35, 16) = Neg(12349, 16)

====
